---- MODULE Spec2Model ----
(***************************************************************************)
(* Verification model of the Solana token monitor: the sliding-window      *)
(* RateLimiter and retryRequest of config/api.js, SolanaTokenFilter of     *)
(* config/filter.js, and the ingestion cycle of SolanaTokenMonitor with    *)
(* the tokens table it writes and the status-update route.                 *)
(*                                                                         *)
(* Eight specifications share the variables; each leaves the variables of  *)
(* the other parts at their initial value:                                 *)
(*   SpecLimiter  one RateLimiter(N, T) and its callers                    *)
(*   SpecRetry    one retryRequest(op, maxRetries) call                    *)
(*   SpecFilter   filterToken on drawn inputs under a drawn configuration  *)
(*   Spec         ingestion cycles, status updates and the tokens table    *)
(*   SpecShutdown Spec with the SIGINT/SIGTERM handlers                    *)
(*   SpecRequest  one endpoint: acquire() and then retryRequest per call   *)
(*   SpecMonitor  processTokens of the multi-chain TokenMonitor            *)
(*   SpecUpdate   Spec with updateFilters                                  *)
(***************************************************************************)
EXTENDS Integers, Sequences, FiniteSets, TLC

VARIABLES
  \* ---- RateLimiter (api.js) ----
  lclock,        \* Date.now(), in milliseconds
  requestTimes,  \* this.requestTimes
  lcalls,        \* per acquire() call: [pc, now, wake, ret]
  \* ---- retryRequest (api.js) ----
  rMax,          \* maxRetries argument
  rAttempt,      \* loop variable attempt
  rState,        \* "running" | "sleeping" | "returned" | "threw"
  rOutcomes,     \* outcome of each requestFn() invocation so far
  rDelays,       \* every sleep(delay) made so far
  rResult,       \* value returned or error thrown
  endpoint,      \* one upstream endpoint: retryRequest calls begun on it and
                 \* request attempts sent by the calls that have ended
  \* ---- SolanaTokenFilter (filter.js) ----
  config,        \* tokenFilter.config
  fpair, frug, fnow, fresult, fupdates,
  previous,      \* the object tokenFilter.config referred to before the
                 \* last updateConfig, Null before the first one
  \* ---- SolanaTokenMonitor (server.js) ----
  clock,         \* wall clock, in minutes
  tokens,        \* the tokens table
  flow,          \* per slot: one invocation of processSolanaTokens
  cycles,        \* invocations started so far
  alerts,        \* pair addresses an alert was logged for
  shutdown       \* "none", "closing" (pool.end() called), "exited"

limiterVars == <<lclock, requestTimes, lcalls>>
retryVars   == <<rMax, rAttempt, rState, rOutcomes, rDelays, rResult, endpoint>>
filterVars  == <<config, fpair, frug, fnow, fresult, fupdates, previous>>
cycleVars   == <<clock, tokens, flow, cycles, alerts, shutdown>>
vars == <<limiterVars, retryVars, filterVars, cycleVars>>

-----------------------------------------------------------------------------
(* JavaScript values.  A value that may be null is a sequence: <<>> is     *)
(* null (or undefined), <<v>> is the value v.                              *)

Null == <<>>
Some(v) == <<v>>
IsNull(x) == x = Null
\* ToNumber in a relational comparison: null coerces to 0.
ToNumber(x) == IF IsNull(x) THEN 0 ELSE x[1]
\* Truthiness of a number-or-null: null and 0 are falsy.
Truthy(x) == ~IsNull(x) /\ x[1] # 0

Min(S) == CHOOSE x \in S : \A y \in S : x <= y
Range(s) == {s[i] : i \in DOMAIN s}

RECURSIVE Pow2(_)
Pow2(n) == IF n <= 0 THEN 1 ELSE 2 * Pow2(n - 1)

-----------------------------------------------------------------------------
(* RateLimiter                                                              *)

\* Bounds of the limiter model.
MaxCalls == 5
MaxTime == 7
\* new RateLimiter(requests, interval)
LimiterRequests == 2
LimiterInterval == 3

Callers == 1..MaxCalls

IdleCall == [pc |-> "idle", now |-> 0, wake |-> 0, ret |-> 0]

\* this.requestTimes.filter(time => now - time < this.interval)
FilterOld(times, now) ==
  SelectSeq(times, LAMBDA time : now - time < LimiterInterval)

\* A wait that is one millisecond short.
WaitTime_OneShort(times, now) == LimiterInterval - (now - Min(Range(times))) - 1

\* this.interval - (now - Math.min(...this.requestTimes))
WaitTime(times, now) == LimiterInterval - (now - Min(Range(times)))

\* acquire() from its entry up to its first suspension or, with no wait, to
\* its return.  Calls are numbered in the order they are made.
Acquire(i) ==
  /\ lcalls[i].pc = "idle"
  /\ \A j \in Callers : j < i => lcalls[j].pc # "idle"
  /\ LET now == lclock
         kept == FilterOld(requestTimes, now)
         atLimit == Len(kept) >= LimiterRequests
     IN IF atLimit /\ WaitTime(kept, now) > 0
        THEN /\ requestTimes' = kept
             /\ lcalls' = [lcalls EXCEPT ![i] =
                  [pc |-> "sleeping", now |-> now,
                   wake |-> now + WaitTime(kept, now), ret |-> 0]]
        ELSE /\ requestTimes' = Append(kept, now)
             /\ lcalls' = [lcalls EXCEPT ![i] =
                  [pc |-> "done", now |-> now, wake |-> now, ret |-> now]]
  /\ UNCHANGED <<lclock, retryVars, filterVars, cycleVars>>

\* The timer of sleep(waitTime) fires (at its due time or later) and
\* acquire() resumes: this.requestTimes.push(now) with the now read at entry.
AcquireResume(i) ==
  /\ lcalls[i].pc = "sleeping"
  /\ lclock >= lcalls[i].wake
  /\ requestTimes' = Append(requestTimes, lcalls[i].now)
  /\ lcalls' = [lcalls EXCEPT ![i].pc = "done", ![i].ret = lclock]
  /\ UNCHANGED <<lclock, retryVars, filterVars, cycleVars>>

LimiterTick ==
  /\ lclock < MaxTime
  /\ lclock' = lclock + 1
  /\ UNCHANGED <<requestTimes, lcalls, retryVars, filterVars, cycleVars>>

LimiterNext ==
  \/ \E i \in Callers : Acquire(i)
  \/ \E i \in Callers : AcquireResume(i)
  \/ LimiterTick

-----------------------------------------------------------------------------
(* retryRequest                                                             *)

\* Bound of the retry model: maxRetries is drawn from 0..MaxAttempts.
MaxAttempts == 4
\* apiConfig.general
maxRetries == 3
retryDelay == 1000

ErrorIds == {"e1", "e2"}
NoRequests == [calls |-> 0, attempts |-> 0]
Undefined == "undefined"

\* const delay = retryDelay * Math.pow(2, attempt - 1)
BackoffDelay(attempt) == retryDelay * Pow2(attempt - 1)

\* A loop body that gives up one attempt early.
RetryStep_OneShort(attempt, maxAttempts, outcome) ==
  IF outcome = "ok" THEN [kind |-> "return", delay |-> 0]
  ELSE IF attempt >= maxAttempts - 1 THEN [kind |-> "throw", delay |-> 0]
  ELSE [kind |-> "sleep", delay |-> BackoffDelay(attempt)]

\* What one pass of the loop body does with the outcome of requestFn():
\* return its value, rethrow its error, or sleep before the next attempt.
RetryStep(attempt, maxAttempts, outcome) ==
  IF outcome = "ok" THEN [kind |-> "return", delay |-> 0]
  ELSE IF attempt = maxAttempts THEN [kind |-> "throw", delay |-> 0]
  ELSE [kind |-> "sleep", delay |-> BackoffDelay(attempt)]

\* One invocation of requestFn inside the loop (attempt <= maxRetries).
RetryAttempt(outcome) ==
  /\ rState = "running"
  /\ rAttempt <= rMax
  /\ rOutcomes' = Append(rOutcomes, outcome)
  /\ LET step == RetryStep(rAttempt, rMax, outcome)
     IN CASE step.kind = "return" ->
               /\ rState' = "returned"
               /\ rResult' = "value"
               /\ UNCHANGED rDelays
          [] step.kind = "throw" ->
               /\ rState' = "threw"
               /\ rResult' = outcome
               /\ UNCHANGED rDelays
          [] OTHER ->
               /\ rState' = "sleeping"
               /\ rResult' = outcome       \* lastError
               /\ rDelays' = Append(rDelays, step.delay)
  /\ UNCHANGED <<endpoint, rMax, rAttempt, limiterVars, filterVars, cycleVars>>

\* sleep(delay) ends; attempt++
RetryWake ==
  /\ rState = "sleeping"
  /\ rState' = "running"
  /\ rAttempt' = rAttempt + 1
  /\ UNCHANGED <<endpoint, rMax, rOutcomes, rDelays, rResult, limiterVars, filterVars, cycleVars>>

\* The loop ends without a return (only when maxRetries < 1): throw lastError.
RetryFallThrough ==
  /\ rState = "running"
  /\ rAttempt > rMax
  /\ rState' = "threw"
  /\ UNCHANGED <<endpoint, rMax, rAttempt, rOutcomes, rDelays, rResult, limiterVars,
               filterVars, cycleVars>>

RetryNext ==
  \/ \E o \in {"ok"} \cup ErrorIds : RetryAttempt(o)
  \/ RetryWake
  \/ RetryFallThrough

\* ---- one endpoint function: fetchLatestSolanaPairs on dexScreenerAPI or
\* checkSolanaRugScore on rugCheckAPI.  Both run
\*   await limiter.acquire(); const response = await retryRequest(...)
\* and the calls on one endpoint are taken one after the other here.

RequestIdle == rState \in {"idle", "returned", "threw"}

\* The endpoint function is entered: await limiter.acquire().
RequestAcquire(i) ==
  /\ RequestIdle
  /\ endpoint.calls = i - 1
  /\ Acquire(i)

\* acquire() has resolved: retryRequest(requestFn) is called with the
\* default maxRetries.
RequestRetry(i) ==
  /\ RequestIdle
  /\ endpoint.calls = i - 1
  /\ lcalls[i].pc = "done"
  /\ rMax' = maxRetries
  /\ rAttempt' = 1
  /\ rState' = "running"
  /\ rOutcomes' = <<>>
  /\ rDelays' = <<>>
  /\ rResult' = Undefined
  /\ endpoint' = [calls |-> i, attempts |-> endpoint.attempts + Len(rOutcomes)]
  /\ UNCHANGED <<limiterVars, filterVars, cycleVars>>

RequestNext ==
  \/ \E i \in Callers : RequestAcquire(i)
  \/ \E i \in Callers : AcquireResume(i)
  \/ LimiterTick
  \/ \E i \in Callers : RequestRetry(i)
  \/ \E o \in {"ok"} \cup ErrorIds : RetryAttempt(o)
  \/ RetryWake

-----------------------------------------------------------------------------
(* SolanaTokenFilter                                                        *)
(*                                                                          *)
(* Times are minutes.  A pair is [pairAddress, chainId, pairCreatedAt,      *)
(* dexId, baseToken, volume24h, liquidityUsd, priceNative, priceChange24h]  *)
(* where "" / 0 stand for a missing field, as the code's `|| 0` and         *)
(* `|| now` read it; a null pair is Null.  A risk record is [score, risks,  *)
(* holders, freezeAuthority, mintAuthority, updateAuthority, isMutable];    *)
(* holders is Null ({} or no `top`) or [top, total, count] with top a       *)
(* sequence of [kind, balance], kind being "wallet", "burn" or "program".   *)

\* const filterConfig = { ... }
filterConfig ==
  [ minHolders |-> Some(10),
    maxTopHolderPercentage |-> Some(40),
    minVolume24h |-> Some(10),
    maxVolume24h |-> Null,
    minLiquidity |-> Some(100),
    maxLiquidity |-> Null,
    minNetTraders |-> Some(5),
    maxTokenAgeHours |-> Some(24),
    minTokenAgeMinutes |-> Some(3),
    maxRugScore |-> Some(6),
    blockedRiskTypes |->
      Some(<<"honeypot", "mint_function", "proxy_contract", "freeze_authority">>),
    maxPriceChange24h |-> Null,
    minPriceChange24h |-> Null,
    allowedDEXs |-> Some(<<"raydium", "orca", "jupiter">>),
    blockedDEXs |-> Some(<<>>),
    minMarketCapUSD |-> Null,
    maxMarketCapUSD |-> Null,
    minSOLLiquidity |-> Some(5),
    maxSlippage |-> Some(5) ]

\* Array.prototype.includes on a non-null array
Includes(arr, x) == \E i \in DOMAIN arr[1] : arr[1][i] = x

\* A merge in which the keys already configured win: { ...newConfig, ...this.config }
MergeConfig_OldKeysWin(cfg, newConfig) ==
  [k \in (DOMAIN cfg) \cup (DOMAIN newConfig) |->
     IF k \in DOMAIN cfg THEN cfg[k] ELSE newConfig[k]]

\* { ...this.config, ...newConfig }
MergeConfig(cfg, newConfig) ==
  [k \in (DOMAIN cfg) \cup (DOMAIN newConfig) |->
     IF k \in DOMAIN newConfig THEN newConfig[k] ELSE cfg[k]]

isBurnAddress(holder) == holder.kind = "burn"
isProgramAccount(holder) == holder.kind = "program"

\* calculateHolderDistribution(holdersData)
calculateHolderDistribution(holdersData) ==
  IF IsNull(holdersData) THEN [count |-> 0, topPercentage |-> 100]
  ELSE
    LET h == holdersData[1]
        totalSupply == IF h.total # 0 THEN h.total ELSE 1
        realHolders ==
          SelectSeq(h.top, LAMBDA x : ~isBurnAddress(x) /\ ~isProgramAccount(x))
    IN [count |-> IF h.count # 0 THEN h.count ELSE Len(h.top),
        topPercentage |->
          IF Len(realHolders) > 0
          THEN (realHolders[1].balance * 100) \div totalSupply
          ELSE 0]

\* estimateMarketCap(pair): liquidity * 20
estimateMarketCap(pair) == pair.liquidityUsd * 20

\* getSOLLiquidity(pair): (liquidityUSD * 0.5) / solPrice, 0 without a price
getSOLLiquidity(pair) ==
  IF pair.priceNative <= 0 THEN 0
  ELSE (pair.liquidityUsd \div 2) \div pair.priceNative

\* tokenAge = now - (pair.pairCreatedAt || now)
tokenAge(pair, now) ==
  now - (IF pair.pairCreatedAt # 0 THEN pair.pairCreatedAt ELSE now)

\* Math.floor(volume24h / 50)
netTradersOf(pair) == pair.volume24h \div 50

\* risks.filter(risk => blockedRiskTypes.includes(risk)), blockedRiskTypes an array
blockedRisksOf(cfg, rug) ==
  SelectSeq(rug.risks, LAMBDA risk : Includes(cfg.blockedRiskTypes, risk))

\* if (rugData.freezeAuthority && rugData.freezeAuthority !== null)
hasFreezeAuthority(rug) == ~IsNull(rug.freezeAuthority)
\* A mint check that reads the freeze authority again.
hasMintAuthority_ReadsFreeze(rug) == ~IsNull(rug.freezeAuthority)
\* if (rugData.mintAuthority && rugData.mintAuthority !== null)
hasMintAuthority(rug) == ~IsNull(rug.mintAuthority)

Rejected(stage) == [raised |-> FALSE, passed |-> FALSE, filters |-> <<stage>>]
\* A TypeError thrown out of filterToken (a method called on null).
Raised == [raised |-> TRUE, passed |-> FALSE, filters |-> <<>>]

\* filterToken, the stages after the DEX filters
filterTokenRest(cfg, pair, rug) ==
  LET volume24h == pair.volume24h
      liquidityUSD == pair.liquidityUsd
      solLiquidity == getSOLLiquidity(pair)
      priceChange24h == pair.priceChange24h
      holderData == calculateHolderDistribution(rug.holders)
      rugScore == rug.score
      netTraders == netTradersOf(pair)
      estimatedMarketCap == estimateMarketCap(pair)
  IN
  IF volume24h < ToNumber(cfg.minVolume24h) THEN Rejected("volume_min")
  ELSE IF Truthy(cfg.maxVolume24h) /\ volume24h > cfg.maxVolume24h[1]
    THEN Rejected("volume_max")
  ELSE IF liquidityUSD < ToNumber(cfg.minLiquidity) THEN Rejected("liquidity_min")
  ELSE IF Truthy(cfg.maxLiquidity) /\ liquidityUSD > cfg.maxLiquidity[1]
    THEN Rejected("liquidity_max")
  ELSE IF solLiquidity < ToNumber(cfg.minSOLLiquidity) THEN Rejected("sol_liquidity")
  ELSE IF Truthy(cfg.maxPriceChange24h) /\ priceChange24h > cfg.maxPriceChange24h[1]
    THEN Rejected("price_change_max")
  ELSE IF Truthy(cfg.minPriceChange24h) /\ priceChange24h < cfg.minPriceChange24h[1]
    THEN Rejected("price_change_min")
  ELSE IF holderData.count < ToNumber(cfg.minHolders) THEN Rejected("holders_min")
  ELSE IF holderData.topPercentage > ToNumber(cfg.maxTopHolderPercentage)
    THEN Rejected("holder_concentration")
  ELSE IF rugScore > ToNumber(cfg.maxRugScore) THEN Rejected("rug_score")
  \* the filter callback runs once per risk: null.includes throws on the first
  ELSE IF IsNull(cfg.blockedRiskTypes) /\ Len(rug.risks) > 0 THEN Raised
  ELSE IF ~IsNull(cfg.blockedRiskTypes) /\ Len(blockedRisksOf(cfg, rug)) > 0
    THEN Rejected("risk_types")
  ELSE IF netTraders < ToNumber(cfg.minNetTraders) THEN Rejected("net_traders")
  ELSE IF (Truthy(cfg.minMarketCapUSD) \/ Truthy(cfg.maxMarketCapUSD))
          /\ Truthy(cfg.minMarketCapUSD)
          /\ estimatedMarketCap < cfg.minMarketCapUSD[1]
    THEN Rejected("market_cap_min")
  ELSE IF (Truthy(cfg.minMarketCapUSD) \/ Truthy(cfg.maxMarketCapUSD))
          /\ Truthy(cfg.maxMarketCapUSD)
          /\ estimatedMarketCap > cfg.maxMarketCapUSD[1]
    THEN Rejected("market_cap_max")
  ELSE IF hasFreezeAuthority(rug) THEN Rejected("freeze_authority")
  ELSE IF hasMintAuthority(rug) THEN Rejected("mint_authority")
  ELSE [raised |-> FALSE, passed |-> TRUE, filters |-> <<>>,
        holderData |-> holderData, netTraders |-> netTraders,
        rugScore |-> rugScore, risks |-> rug.risks,
        solLiquidity |-> solLiquidity,
        estimatedMarketCap |-> estimatedMarketCap]

\* async filterToken(pair, rugData)
filterToken(cfg, pair, rug, now) ==
  IF IsNull(pair) \/ pair[1].pairAddress = "" THEN Rejected("validation")
  ELSE IF pair[1].chainId # "solana" THEN Rejected("chain_mismatch")
  \* tokenAgeHours > maxTokenAgeHours, in minutes
  ELSE IF tokenAge(pair[1], now) > ToNumber(cfg.maxTokenAgeHours) * 60
    THEN Rejected("age_max")
  ELSE IF tokenAge(pair[1], now) < ToNumber(cfg.minTokenAgeMinutes)
    THEN Rejected("age_min")
  ELSE IF IsNull(cfg.blockedDEXs) THEN Raised
  ELSE IF Includes(cfg.blockedDEXs, pair[1].dexId) THEN Rejected("dex_blocked")
  ELSE IF ~IsNull(cfg.allowedDEXs) /\ ~Includes(cfg.allowedDEXs, pair[1].dexId)
    THEN Rejected("dex_allowed")
  ELSE filterTokenRest(cfg, pair[1], rug)

-----------------------------------------------------------------------------
(* filterToken on drawn inputs                                              *)

\* Bounds of the filter model: an input differs from the all-passing input
\* in at most MaxDeviations fields; the configuration is the default one
\* after at most MaxConfigUpdates calls of updateConfig.
MaxDeviations == 2
MaxConfigUpdates == 1

GoodPair(now) ==
  [pairAddress |-> "P1", chainId |-> "solana", pairCreatedAt |-> now - 60,
   dexId |-> "raydium", baseToken |-> "T1", volume24h |-> 300,
   liquidityUsd |-> 1000, priceNative |-> 1, priceChange24h |-> 20]

GoodHolders ==
  Some([top |-> <<[kind |-> "wallet", balance |-> 10],
                  [kind |-> "wallet", balance |-> 5]>>,
        total |-> 100, count |-> 20])

GoodRug ==
  [score |-> 2, risks |-> <<>>, holders |-> GoodHolders,
   freezeAuthority |-> Null, mintAuthority |-> Null,
   updateAuthority |-> Null, isMutable |-> TRUE]

PairInputs(now) ==
  [pairAddress : {"P1", ""},
   chainId : {"solana", "ethereum"},
   pairCreatedAt : {now - 60, 0, now - 2, now - 1500},
   dexId : {"raydium", "pumpfun"},
   baseToken : {"T1"},
   volume24h : {300, 5, 200},
   liquidityUsd : {1000, 50},
   priceNative : {1, 0, 250},
   priceChange24h : {20, -60}]

HolderInputs ==
  { GoodHolders, Null,
    Some([top |-> <<[kind |-> "wallet", balance |-> 10]>>,
          total |-> 100, count |-> 5]),
    Some([top |-> <<[kind |-> "wallet", balance |-> 50],
                    [kind |-> "wallet", balance |-> 5]>>,
          total |-> 100, count |-> 20]),
    Some([top |-> <<[kind |-> "burn", balance |-> 90],
                    [kind |-> "wallet", balance |-> 10]>>,
          total |-> 100, count |-> 0]) }

RugInputs ==
  [score : {2, 0, 8},
   risks : {<<>>, <<"honeypot">>, <<"data_unavailable">>},
   holders : HolderInputs,
   freezeAuthority : {Null, Some("FreezeAuth")},
   mintAuthority : {Null, Some("MintAuth")},
   updateAuthority : {Null},
   isMutable : {TRUE}]

Deviations(r, base) == Cardinality({f \in DOMAIN base : r[f] # base[f]})

\* The partial configurations handed to updateConfig.
ConfigPartials ==
  << [maxTokenAgeHours |-> Null],
     [maxRugScore |-> Null],
     [maxTopHolderPercentage |-> Null],
     [blockedDEXs |-> Null],
     [blockedRiskTypes |-> Null],
     [allowedDEXs |-> Null],
     [minVolume24h |-> Null, minHolders |-> Null],
     [minTokenAgeMinutes |-> Null, minLiquidity |-> Null,
      minSOLLiquidity |-> Null, minNetTraders |-> Null],
     [minVolume24h |-> Some(100), minHolders |-> Some(25)],
     [maxVolume24h |-> Some(250), maxLiquidity |-> Some(500)],
     [minPriceChange24h |-> Some(-50), maxPriceChange24h |-> Some(10)],
     [maxPriceChange24h |-> Some(0)],
     [minMarketCapUSD |-> Some(5000), maxMarketCapUSD |-> Some(10000)],
     [blockedDEXs |-> Some(<<"raydium">>)],
     [minVolume24h |-> Some(500), maxVolume24h |-> Some(100)],
     [minHolders |-> Some(-1)] >>

\* updateConfig(newConfig)
UpdateConfig(i) ==
  /\ fresult = Null
  /\ ~IsNull(config)
  /\ fupdates < MaxConfigUpdates
  /\ config' = Some(MergeConfig(config[1], ConfigPartials[i]))
  /\ previous' = config
  /\ fupdates' = fupdates + 1
  /\ UNCHANGED <<fpair, frug, fnow, fresult, limiterVars, retryVars, cycleVars>>

\* One call filterToken(pair, rugData) on the drawn input.
FilterCall ==
  /\ fresult = Null
  /\ ~IsNull(config)
  /\ fresult' = Some(filterToken(config[1], fpair, frug, fnow))
  /\ UNCHANGED <<config, previous, fpair, frug, fnow, fupdates>>
  /\ UNCHANGED <<limiterVars, retryVars, cycleVars>>

FilterNext ==
  \/ \E i \in DOMAIN ConfigPartials : UpdateConfig(i)
  \/ FilterCall

-----------------------------------------------------------------------------
(* SolanaTokenMonitor: the ingestion cycle and the tokens table             *)
(*                                                                          *)
(* Times are minutes.  The tokens table is the sequence of its rows in      *)
(* insertion order.  A slot holds one invocation of processSolanaTokens;    *)
(* its pc is the await the invocation is suspended at.                      *)

\* Bounds of the cycle model: invocations of processSolanaTokens started,
\* clock ticks, and the configured maxTokensPerScan.
MaxCycles == 2
MaxTicks == 1
MaxTokensPerScan == 2
\* hoursSinceUpdate < 1
FreshnessWindow == 60

StartClock == 50 * 60
\* One tick of the clock is one freshness window.
TickMinutes == FreshnessWindow
Slots == {1, 2}

\* filterConfig.allowedDEXs, through appConfig.priorityDEXs
priorityDEXs == filterConfig.allowedDEXs[1]
\* solana.getSupportedDEXs()
supportedDEXs == <<"raydium", "orca", "jupiter", "meteora">>

\* Array.prototype.indexOf
indexOf(arr, x) ==
  IF \E i \in DOMAIN arr : arr[i] = x
  THEN Min({i \in DOMAIN arr : arr[i] = x}) - 1
  ELSE -1

\* A comparator that puts the smaller volume first among the pairs without
\* priority.
comparePairs_VolumeAscending(a, b) ==
  LET aPriority == indexOf(priorityDEXs, a.dexId)
      bPriority == indexOf(priorityDEXs, b.dexId)
  IN IF aPriority # -1 /\ bPriority # -1 THEN aPriority - bPriority
     ELSE IF aPriority # -1 THEN -1
     ELSE IF bPriority # -1 THEN 1
     ELSE a.volume24h - b.volume24h

\* The comparator handed to sort in fetchLatestSolanaPairs.
comparePairs(a, b) ==
  LET aPriority == indexOf(priorityDEXs, a.dexId)
      bPriority == indexOf(priorityDEXs, b.dexId)
  IN IF aPriority # -1 /\ bPriority # -1 THEN aPriority - bPriority
     ELSE IF aPriority # -1 THEN -1
     ELSE IF bPriority # -1 THEN 1
     ELSE b.volume24h - a.volume24h

\* x placed after every element that does not sort after it.
InsertPair(s, x) ==
  LET later == {i \in DOMAIN s : comparePairs(s[i], x) > 0}
      k == IF later = {} THEN Len(s) + 1 ELSE Min(later)
  IN SubSeq(s, 1, k - 1) \o <<x>> \o SubSeq(s, k, Len(s))

\* Array.prototype.sort with comparePairs (a stable sort).
RECURSIVE SortPairs(_)
SortPairs(s) ==
  IF s = <<>> THEN <<>>
  ELSE InsertPair(SortPairs(SubSeq(s, 1, Len(s) - 1)), s[Len(s)])

\* retryRequest(requestFn) run to its end, requestFn failing on its first
\* `failures` invocations: "return" or "throw".
RECURSIVE retryLoop(_, _, _)
retryLoop(attempt, maxAttempts, failures) ==
  IF attempt > maxAttempts THEN "throw"
  ELSE LET step == RetryStep(attempt, maxAttempts,
                             IF attempt <= failures THEN "e1" ELSE "ok")
       IN IF step.kind = "sleep"
          THEN retryLoop(attempt + 1, maxAttempts, failures)
          ELSE step.kind

\* A fetchLatestSolanaPairs whose catch block is never entered by a failed
\* request: it goes on with whatever payload there is.
fetchLatestSolanaPairs_IgnoresFailure(failures, data) ==
  IF IsNull(data) THEN <<>>
  ELSE LET filteredPairs ==
             SortPairs(SelectSeq(data[1],
                                 LAMBDA pair : indexOf(supportedDEXs, pair.dexId) # -1))
       IN SubSeq(filteredPairs, 1,
                 IF Len(filteredPairs) < MaxTokensPerScan
                 THEN Len(filteredPairs) ELSE MaxTokensPerScan)

\* fetchLatestSolanaPairs(): data is response.data, Null when it is missing,
\* else Some(pairs) with pairs = data.pairs || [].
fetchLatestSolanaPairs(failures, data) ==
  IF retryLoop(1, maxRetries, failures) = "throw" \/ IsNull(data) THEN <<>>
  ELSE LET filteredPairs ==
             SortPairs(SelectSeq(data[1],
                                 LAMBDA pair : indexOf(supportedDEXs, pair.dexId) # -1))
       IN SubSeq(filteredPairs, 1,
                 IF Len(filteredPairs) < MaxTokensPerScan
                 THEN Len(filteredPairs) ELSE MaxTokensPerScan)

\* A record for the catch block that carries a sound holder list.
DegradedDefault_WithHolders ==
  [score |-> 5, risks |-> <<"data_unavailable">>, holders |-> GoodHolders,
   freezeAuthority |-> Null, mintAuthority |-> Null,
   updateAuthority |-> Null, isMutable |-> TRUE]

\* The record returned from the catch block of checkSolanaRugScore.
DegradedDefault ==
  [score |-> 5, risks |-> <<"data_unavailable">>, holders |-> Null,
   freezeAuthority |-> Null, mintAuthority |-> Null,
   updateAuthority |-> Null, isMutable |-> TRUE]

\* A checkSolanaRugScore whose catch block rethrows.
checkSolanaRugScore_Rethrows(failures, data) ==
  [raised |-> retryLoop(1, maxRetries, failures) = "throw" \/ IsNull(data),
   value |-> DegradedDefault]

\* checkSolanaRugScore(tokenAddress): data is response.data, Null when it
\* cannot be read; each field of a payload is Null when it is missing.
checkSolanaRugScore(failures, data) ==
  IF retryLoop(1, maxRetries, failures) = "throw" \/ IsNull(data)
  THEN [raised |-> FALSE, value |-> DegradedDefault]
  ELSE [raised |-> FALSE,
        value |->
          [score |-> IF Truthy(data[1].score) THEN data[1].score[1] ELSE 0,
           risks |-> IF IsNull(data[1].risks) THEN <<>> ELSE data[1].risks[1],
           holders |-> data[1].holders,
           freezeAuthority |-> data[1].freezeAuthority,
           mintAuthority |-> data[1].mintAuthority,
           updateAuthority |-> data[1].updateAuthority,
           isMutable |-> data[1].isMutable # Some(FALSE)]]

\* SELECT ... FROM tokens WHERE pair_address = $1
RowsOf(table, pairAddress) ==
  SelectSeq(table, LAMBDA row : row.pair_address = pairAddress)

\* checkExistingToken(pairAddress): the fresh row, or Null.
checkExistingToken(table, pairAddress, now, queryOk) ==
  IF ~queryOk THEN Null
  ELSE IF Len(RowsOf(table, pairAddress)) = 0 THEN Null
  ELSE IF now - RowsOf(table, pairAddress)[1].updated_at < FreshnessWindow
    THEN Some(RowsOf(table, pairAddress)[1])
  ELSE Null

\* CREATE TRIGGER update_tokens_updated_at BEFORE UPDATE
update_updated_at_column(row, now) == [row EXCEPT !.updated_at = now]

\* The row of INSERT ... VALUES, with the column defaults of the table.
InsertedRow(pair, rug, filterResult, now) ==
  [pair_address |-> pair.pairAddress,
   chain_id |-> "solana",
   dex_id |-> pair.dexId,
   volume_24h |-> pair.volume24h,
   liquidity_usd |-> pair.liquidityUsd,
   sol_liquidity |-> IF pair.priceNative > 0
                     THEN pair.liquidityUsd \div pair.priceNative ELSE 0,
   holders_count |-> filterResult.holderData.count,
   top_holder_percentage |-> filterResult.holderData.topPercentage,
   net_traders |-> filterResult.netTraders,
   rug_score |-> rug.score,
   mint_authority |-> rug.mintAuthority,
   status |-> "active",
   created_at |-> now,
   updated_at |-> now]

\* A DO UPDATE that also takes the status of the new row.
OnConflictUpdate_WithStatus(old, excluded, now) ==
  [old EXCEPT !.volume_24h = excluded.volume_24h,
              !.liquidity_usd = excluded.liquidity_usd,
              !.sol_liquidity = excluded.sol_liquidity,
              !.holders_count = excluded.holders_count,
              !.top_holder_percentage = excluded.top_holder_percentage,
              !.net_traders = excluded.net_traders,
              !.rug_score = excluded.rug_score,
              !.mint_authority = excluded.mint_authority,
              !.status = excluded.status,
              !.updated_at = now]

\* A DO UPDATE that also takes the creation time of the new row.
OnConflictUpdate_WithCreatedAt(old, excluded, now) ==
  [old EXCEPT !.volume_24h = excluded.volume_24h,
              !.liquidity_usd = excluded.liquidity_usd,
              !.sol_liquidity = excluded.sol_liquidity,
              !.holders_count = excluded.holders_count,
              !.top_holder_percentage = excluded.top_holder_percentage,
              !.net_traders = excluded.net_traders,
              !.rug_score = excluded.rug_score,
              !.mint_authority = excluded.mint_authority,
              !.created_at = excluded.created_at,
              !.updated_at = now]

\* ON CONFLICT (pair_address) DO UPDATE SET ... = EXCLUDED. ...
OnConflictUpdate(old, excluded, now) ==
  [old EXCEPT !.volume_24h = excluded.volume_24h,
              !.liquidity_usd = excluded.liquidity_usd,
              !.sol_liquidity = excluded.sol_liquidity,
              !.holders_count = excluded.holders_count,
              !.top_holder_percentage = excluded.top_holder_percentage,
              !.net_traders = excluded.net_traders,
              !.rug_score = excluded.rug_score,
              !.mint_authority = excluded.mint_authority,
              !.updated_at = now]

\* The upsert of saveSolanaToken against the UNIQUE pair_address column.
Upsert(table, excluded, now) ==
  IF \E i \in DOMAIN table : table[i].pair_address = excluded.pair_address
  THEN [i \in DOMAIN table |->
          IF table[i].pair_address = excluded.pair_address
          THEN update_updated_at_column(OnConflictUpdate(table[i], excluded, now), now)
          ELSE table[i]]
  ELSE Append(table, excluded)

\* saveSolanaToken(pair, rugData, filterResult)
saveSolanaToken(table, pair, rug, filterResult, now) ==
  Upsert(table, InsertedRow(pair, rug, filterResult, now), now)

\* shouldAlert(pair, rugData, filterResult), read against filters.config
shouldAlert(pair, rug, filterResult) ==
  /\ pair.volume24h > ToNumber(filterConfig.minVolume24h)
  /\ pair.liquidityUsd > ToNumber(filterConfig.minLiquidity)
  /\ (IF rug.score # 0 THEN rug.score ELSE 10) <= ToNumber(filterConfig.maxRugScore)
  /\ filterResult.holderData.count >= ToNumber(filterConfig.minHolders)
  /\ filterResult.holderData.topPercentage
       <= ToNumber(filterConfig.maxTopHolderPercentage)

\* A list of accepted statuses that lets one more value through.
validStatuses_WithBogus == {"active", "flagged", "rug", "delisted", "bogus"}

\* const validStatuses = [...]
validStatuses == {"active", "flagged", "rug", "delisted"}

\* UPDATE tokens SET status = $1, updated_at = CURRENT_TIMESTAMP
\*   WHERE pair_address = $2 AND chain_id = 'solana'
UpdateStatusRows(table, pairAddress, status, now) ==
  [i \in DOMAIN table |->
     IF table[i].pair_address = pairAddress /\ table[i].chain_id = "solana"
     THEN update_updated_at_column(
            [table[i] EXCEPT !.status = status, !.updated_at = now], now)
     ELSE table[i]]

\* PUT /api/tokens/:pairAddress/status: the response code and the table it
\* leaves: 400 for an invalid status, 500 for a failed query, 404 when the
\* UPDATE matches no row, else 200.
statusRoute(table, pairAddress, status, queryOk, now) ==
  IF status \notin validStatuses THEN [code |-> 400, rows |-> table]
  ELSE IF ~queryOk THEN [code |-> 500, rows |-> table]
  ELSE LET updated == UpdateStatusRows(table, pairAddress, status, now)
       IN IF \A i \in DOMAIN table :
               ~(table[i].pair_address = pairAddress /\ table[i].chain_id = "solana")
          THEN [code |-> 404, rows |-> updated]
          ELSE [code |-> 200, rows |-> updated]

\* A sendAlert that lets the failure of the webhook call out.
sendAlert_Propagates(webhook) ==
  [raised |-> webhook = "fail", delivered |-> webhook = "ok"]

\* sendAlert(pair, rugData, filterResult): the alert is logged, then posted
\* to appConfig.webhookUrl when one is set; a failed post is logged as a
\* warning inside its own try/catch.
sendAlert(webhook) ==
  [raised |-> FALSE, delivered |-> webhook = "ok"]

\* ---- upstream data of the cycle model ----

CyclePair(pairAddress, dexId, volume24h, baseToken) ==
  [GoodPair(StartClock) EXCEPT !.pairAddress = pairAddress, !.dexId = dexId,
                               !.volume24h = volume24h, !.baseToken = baseToken]

\* The responses of GET /latest/dex/pairs/solana: response.data.pairs, or
\* Null for a response without data.  "pumpfun" is no supported DEX, "meteora"
\* is supported without priority, the volume of "B" is below minVolume24h,
\* the pair of "N" has no baseToken, "A" comes back with another volume, and
\* "L" is listed before "K", which has the larger volume.
PairResponses ==
  { Null,
    Some(<<>>),
    Some(<<CyclePair("M", "meteora", 900, "TM"), CyclePair("B", "orca", 5, "TB"),
           CyclePair("A", "raydium", 300, "TA")>>),
    Some(<<CyclePair("A", "raydium", 600, "TA")>>),
    Some(<<CyclePair("X", "pumpfun", 300, "TX"), CyclePair("N", "raydium", 300, "")>>),
    Some(<<CyclePair("L", "meteora", 100, "TL"), CyclePair("K", "meteora", 900, "TK")>>) }

\* The payloads of GET /tokens/:address/report, Null when unreadable.
CleanPayload ==
  [score |-> Some(2), risks |-> Some(<<>>), holders |-> GoodHolders,
   freezeAuthority |-> Null, mintAuthority |-> Null, updateAuthority |-> Null,
   isMutable |-> Some(FALSE)]

RugPayloads ==
  { Null,
    Some(CleanPayload),
    Some([score |-> Null, risks |-> Null, holders |-> Null,
          freezeAuthority |-> Null, mintAuthority |-> Null,
          updateAuthority |-> Null, isMutable |-> Null]) }

\* The requests made to the status route: no record is ever stored for "Z",
\* "bogus" is no valid status, and the last request meets a failing query.
StatusRequests ==
  { [pairAddress |-> "A", status |-> "flagged", queryOk |-> TRUE],
    [pairAddress |-> "A", status |-> "bogus", queryOk |-> TRUE],
    [pairAddress |-> "Z", status |-> "rug", queryOk |-> TRUE],
    [pairAddress |-> "A", status |-> "delisted", queryOk |-> FALSE] }

\* ---- one invocation of processSolanaTokens ----

IdleFlow ==
  [pc |-> "idle", pairs |-> <<>>, idx |-> 0,
   processedCount |-> 0, savedCount |-> 0, filteredCount |-> 0,
   rugData |-> Null, filterResult |-> Null,
   \* history of the current pair: did the risk lookup fail; until its
   \* upsert or rejection: was its record fresh when it was looked up, and
   \* what did the lookup see
   rugFailed |-> FALSE, fresh |-> FALSE, observed |-> "none",
   \* history of the current pair: its upsert made after a lookup that saw
   \* the record absent or stale, with the time, what the lookup saw, and
   \* the row as the upsert left it
   wrote |-> {},
   \* history of the invocation: the ERROR lines logged by the catch block
   \* of the loop, and whether the pair fetch failed on every attempt
   errorCount |-> 0, fetchFailed |-> FALSE,
   \* history of the current pair: its notification call failed
   notifyFailed |-> FALSE,
   \* history of the loop: a risk request was made and no
   \* sleep(rateLimitDelay) has run since
   unpaced |-> FALSE,
   \* history of the invocation: the number of configuration updates made
   \* before it started
   updatesBefore |-> 0]

IsFresh(table, pairAddress, now) ==
  \E i \in DOMAIN table :
    /\ table[i].pair_address = pairAddress
    /\ now - table[i].updated_at < FreshnessWindow

Observation(table, pairAddress, now, queryOk) ==
  IF ~queryOk THEN "error"
  ELSE IF Len(RowsOf(table, pairAddress)) = 0 THEN "absent"
  ELSE IF IsFresh(table, pairAddress, now) THEN "fresh"
  ELSE "stale"

\* The end of one loop iteration (fall through, continue, or the catch
\* block): the next pair with processedCount++, or the code after the loop,
\* which reads only the three counts.
NextPair(fl) ==
  LET cleared == [fl EXCEPT !.rugData = Null, !.filterResult = Null,
                            !.fresh = FALSE, !.observed = "none",
                            !.rugFailed = FALSE, !.notifyFailed = FALSE,
                            !.wrote = {}]
  IN IF fl.idx < Len(fl.pairs)
     THEN [cleared EXCEPT !.pc = "lookup", !.idx = @ + 1, !.processedCount = @ + 1]
     ELSE [cleared EXCEPT !.pc = "complete", !.pairs = <<>>, !.idx = 0,
                          !.unpaced = FALSE]

\* A catch block that leaves the loop.
CatchPair_EndsLoop(fl) ==
  [fl EXCEPT !.pc = "complete", !.errorCount = @ + 1,
             !.pairs = <<>>, !.idx = 0, !.wrote = {},
             !.rugData = Null, !.filterResult = Null,
             !.fresh = FALSE, !.observed = "none", !.rugFailed = FALSE,
             !.notifyFailed = FALSE, !.unpaced = FALSE]

\* The catch block inside the loop: one ERROR line is logged and the loop
\* goes on with the next pair.
CatchPair(fl) == NextPair([fl EXCEPT !.errorCount = @ + 1])

\* What an invocation of processSolanaTokens resolves to: the function has
\* no return statement, and its outer catch block only logs, so the promise
\* resolves to undefined whatever the counts are.
processSolanaTokens(fl) == Null

FreeSlot(s) ==
  /\ flow[s].pc = "idle"
  /\ \A t \in Slots : t < s => flow[t].pc # "idle"

\* The process runs until process.exit(0); pool.query() is rejected once
\* pool.end() has been called.
Alive == shutdown # "exited"
PoolOpen == shutdown = "none"

\* The cron callback of startScheduler, or runScan(): either one awaits
\* processSolanaTokens(), which runs up to its first await.  Nothing keeps
\* an invocation from starting while another one is suspended.
StartCycle(s) ==
  /\ Alive
  /\ FreeSlot(s)
  /\ cycles < MaxCycles
  /\ cycles' = cycles + 1
  /\ flow' = [flow EXCEPT ![s] = [IdleFlow EXCEPT !.pc = "fetch",
                                                !.updatesBefore = fupdates]]
  /\ UNCHANGED <<clock, tokens, alerts, config, fupdates, shutdown>>
  /\ UNCHANGED <<fpair, frug, fnow, fresult, previous, limiterVars, retryVars>>

\* fetchLatestSolanaPairs() resolves; the loop starts on the first pair.
Fetch(s, failures, data) ==
  /\ Alive
  /\ flow[s].pc = "fetch"
  /\ flow' = [flow EXCEPT ![s] =
       NextPair([@ EXCEPT !.pairs = fetchLatestSolanaPairs(failures, data),
                          !.idx = 0,
                          !.fetchFailed =
                            (retryLoop(1, maxRetries, failures) = "throw")])]
  /\ UNCHANGED <<clock, tokens, cycles, alerts, config, fupdates, shutdown>>
  /\ UNCHANGED <<fpair, frug, fnow, fresult, previous, limiterVars, retryVars>>

\* checkExistingToken(pair.pairAddress) resolves: a fresh record ends the
\* iteration; otherwise checkSolanaRugScore(pair.baseToken.address) is
\* called, which raises a TypeError for a pair without baseToken.
Lookup(s, queryOk) ==
  /\ Alive
  /\ queryOk => PoolOpen
  /\ flow[s].pc = "lookup"
  /\ LET pair == flow[s].pairs[flow[s].idx]
         existingToken == checkExistingToken(tokens, pair.pairAddress, clock, queryOk)
     IN flow' = [flow EXCEPT ![s] =
          IF ~IsNull(existingToken) THEN NextPair(@)
          ELSE IF pair.baseToken = "" THEN CatchPair(@)
          ELSE [@ EXCEPT !.pc = "rug",
                         !.fresh = IsFresh(tokens, pair.pairAddress, clock),
                         !.observed =
                           Observation(tokens, pair.pairAddress, clock, queryOk)]]
  /\ UNCHANGED <<clock, tokens, cycles, alerts, config, fupdates, shutdown>>
  /\ UNCHANGED <<fpair, frug, fnow, fresult, previous, limiterVars, retryVars>>

\* checkSolanaRugScore(...) settles and filterToken(pair, rugData), which
\* awaits nothing, runs on its result: a pass issues the upsert, a rejection
\* counts and sleeps, a raise of either ends the iteration.
RugCheck(s, failures, data) ==
  /\ Alive
  /\ flow[s].pc = "rug"
  /\ LET pair == flow[s].pairs[flow[s].idx]
         r == checkSolanaRugScore(failures, data)
         filterResult == filterToken(config[1], Some(pair), r.value, clock)
         called == [flow[s] EXCEPT
                      !.unpaced = TRUE,
                      !.rugData = Some(r.value),
                      !.rugFailed = (failures >= maxRetries \/ IsNull(data)),
                      !.filterResult = Some(filterResult)]
     IN flow' = [flow EXCEPT ![s] =
          IF r.raised \/ filterResult.raised
          THEN CatchPair([@ EXCEPT !.unpaced = TRUE])
          ELSE IF filterResult.passed THEN [called EXCEPT !.pc = "save"]
          ELSE [called EXCEPT !.pc = "sleep", !.filteredCount = @ + 1,
                              !.fresh = FALSE, !.observed = "none"]]
  /\ UNCHANGED <<clock, tokens, cycles, alerts, config, fupdates, shutdown>>
  /\ UNCHANGED <<fpair, frug, fnow, fresult, previous, limiterVars, retryVars>>

\* The query of saveSolanaToken settles: on failure the catch block; on
\* success savedCount++, then sendAlert for a pair that shouldAlert accepts,
\* then the sleep.  webhook is what the notification call meets.
Save(s, queryOk, webhook) ==
  /\ Alive
  /\ queryOk => PoolOpen
  /\ flow[s].pc = "save"
  /\ LET pair == flow[s].pairs[flow[s].idx]
         rugData == flow[s].rugData[1]
         filterResult == flow[s].filterResult[1]
         alerting == shouldAlert(pair, rugData, filterResult)
         saved == [flow[s] EXCEPT
                     !.savedCount = @ + 1,
                     !.rugData = Null, !.filterResult = Null, !.rugFailed = FALSE,
                     !.fresh = FALSE, !.observed = "none",
                     !.wrote = IF flow[s].observed \in {"absent", "stale"}
                               THEN @ \cup {[at |-> clock,
                                             over |-> flow[s].observed,
                                             row |-> RowsOf(tokens', pair.pairAddress)[1]]}
                               ELSE @]
     IN IF queryOk
        THEN /\ tokens' = saveSolanaToken(tokens, pair, rugData, filterResult, clock)
             /\ alerts' = IF alerting THEN alerts \cup {pair.pairAddress} ELSE alerts
             /\ flow' = [flow EXCEPT ![s] =
                  IF alerting /\ sendAlert(webhook).raised
                  THEN CatchPair(saved)
                  ELSE [saved EXCEPT !.pc = "sleep",
                                     !.notifyFailed = (alerting /\ webhook = "fail")]]
        ELSE /\ flow' = [flow EXCEPT ![s] = CatchPair(@)]
             /\ UNCHANGED <<tokens, alerts>>
  /\ UNCHANGED <<clock, cycles, config, fupdates, shutdown>>
  /\ UNCHANGED <<fpair, frug, fnow, fresult, previous, limiterVars, retryVars>>

\* sleep(this.config.rateLimitDelay) ends.
Delay(s) ==
  /\ Alive
  /\ flow[s].pc = "sleep"
  /\ flow' = [flow EXCEPT ![s] = NextPair([@ EXCEPT !.unpaced = FALSE])]
  /\ UNCHANGED <<clock, tokens, cycles, alerts, config, fupdates, shutdown>>
  /\ UNCHANGED <<fpair, frug, fnow, fresult, previous, limiterVars, retryVars>>

\* The code after the loop: the counts are logged and the invocation
\* resolves.
Complete(s) ==
  /\ Alive
  /\ flow[s].pc = "complete"
  /\ flow' = [flow EXCEPT ![s] = IdleFlow]
  /\ UNCHANGED <<clock, tokens, cycles, alerts, config, fupdates, shutdown>>
  /\ UNCHANGED <<fpair, frug, fnow, fresult, previous, limiterVars, retryVars>>

\* PUT /api/tokens/:pairAddress/status settles.
UpdateStatus(pairAddress, status, queryOk) ==
  /\ Alive
  /\ queryOk => PoolOpen
  /\ tokens' = statusRoute(tokens, pairAddress, status, queryOk, clock).rows
  /\ UNCHANGED <<clock, flow, cycles, alerts, config, fupdates, shutdown>>
  /\ UNCHANGED <<fpair, frug, fnow, fresult, previous, limiterVars, retryVars>>

\* Time passes.
Tick ==
  /\ Alive
  /\ clock < StartClock + MaxTicks * TickMinutes
  /\ clock' = clock + TickMinutes
  /\ UNCHANGED <<tokens, flow, cycles, alerts, config, fupdates, shutdown>>
  /\ UNCHANGED <<fpair, frug, fnow, fresult, previous, limiterVars, retryVars>>

\* SIGINT or SIGTERM arrives: the handler calls monitor.close(), which
\* calls pool.end() and waits for it.
Signal ==
  /\ shutdown = "none"
  /\ shutdown' = "closing"
  /\ UNCHANGED <<clock, tokens, flow, cycles, alerts, config, fupdates>>
  /\ UNCHANGED <<fpair, frug, fnow, fresult, previous, limiterVars, retryVars>>

\* pool.end() has settled: the handler calls process.exit(0), whatever the
\* invocations of processSolanaTokens are doing.
Exit ==
  /\ shutdown = "closing"
  /\ shutdown' = "exited"
  /\ UNCHANGED <<clock, tokens, flow, cycles, alerts, config, fupdates>>
  /\ UNCHANGED <<fpair, frug, fnow, fresult, previous, limiterVars, retryVars>>

Webhooks == {"unset", "ok", "fail"}

Next ==
  \/ \E s \in Slots : StartCycle(s)
  \/ \E s \in Slots, failures \in 0..maxRetries, data \in PairResponses :
       Fetch(s, failures, data)
  \/ \E s \in Slots, queryOk \in BOOLEAN : Lookup(s, queryOk)
  \/ \E s \in Slots, failures \in 0..maxRetries, data \in RugPayloads :
       RugCheck(s, failures, data)
  \/ \E s \in Slots, queryOk \in BOOLEAN, webhook \in Webhooks :
       Save(s, queryOk, webhook)
  \/ \E s \in Slots : Delay(s)
  \/ \E s \in Slots : Complete(s)
  \/ \E r \in StatusRequests : UpdateStatus(r.pairAddress, r.status, r.queryOk)
  \/ Tick

NextShutdown ==
  \/ \E s \in Slots : StartCycle(s)
  \/ \E s \in Slots, failures \in 0..maxRetries, data \in PairResponses :
       Fetch(s, failures, data)
  \/ \E s \in Slots, queryOk \in BOOLEAN : Lookup(s, queryOk)
  \/ \E s \in Slots, failures \in 0..maxRetries, data \in RugPayloads :
       RugCheck(s, failures, data)
  \/ \E s \in Slots, queryOk \in BOOLEAN, webhook \in Webhooks :
       Save(s, queryOk, webhook)
  \/ \E s \in Slots : Delay(s)
  \/ \E s \in Slots : Complete(s)
  \/ \E r \in StatusRequests : UpdateStatus(r.pairAddress, r.status, r.queryOk)
  \/ Tick
  \/ Signal
  \/ Exit

-----------------------------------------------------------------------------
(* Specifications                                                           *)

InitLimiter ==
  /\ lclock = 0
  /\ requestTimes = <<>>
  /\ lcalls = [i \in Callers |-> IdleCall]
  /\ rMax = 0 /\ rAttempt = 1 /\ rState = "idle"
  /\ rOutcomes = <<>> /\ rDelays = <<>> /\ rResult = Undefined
  /\ endpoint = NoRequests
  /\ config = Null /\ fpair = Null /\ frug = Null
  /\ fnow = 0 /\ fresult = Null /\ fupdates = 0 /\ previous = Null
  /\ clock = 0 /\ tokens = <<>> /\ flow = [s \in Slots |-> Null]
  /\ cycles = 0 /\ alerts = {} /\ shutdown = "none"

SpecLimiter == InitLimiter /\ [][LimiterNext]_vars

InitRequest ==
  /\ lclock = 0
  /\ requestTimes = <<>>
  /\ lcalls = [i \in Callers |-> IdleCall]
  /\ rMax = 0 /\ rAttempt = 1 /\ rState = "idle"
  /\ rOutcomes = <<>> /\ rDelays = <<>> /\ rResult = Undefined
  /\ endpoint = NoRequests
  /\ config = Null /\ fpair = Null /\ frug = Null
  /\ fnow = 0 /\ fresult = Null /\ fupdates = 0 /\ previous = Null
  /\ clock = 0 /\ tokens = <<>> /\ flow = [s \in Slots |-> Null]
  /\ cycles = 0 /\ alerts = {} /\ shutdown = "none"

SpecRequest == InitRequest /\ [][RequestNext]_vars

InitRetry ==
  /\ rMax \in 0..MaxAttempts
  /\ rAttempt = 1
  /\ rState = "running"
  /\ rOutcomes = <<>>
  /\ rDelays = <<>>
  /\ rResult = Undefined
  /\ endpoint = NoRequests
  /\ lclock = 0 /\ requestTimes = <<>>
  /\ lcalls = [i \in Callers |-> IdleCall]
  /\ config = Null /\ fpair = Null /\ frug = Null
  /\ fnow = 0 /\ fresult = Null /\ fupdates = 0 /\ previous = Null
  /\ clock = 0 /\ tokens = <<>> /\ flow = [s \in Slots |-> Null]
  /\ cycles = 0 /\ alerts = {} /\ shutdown = "none"

SpecRetry == InitRetry /\ [][RetryNext]_vars

InitFilter ==
  /\ config = Some(filterConfig)
  /\ fnow = 3000
  /\ fpair \in {Null} \cup {Some(p) : p \in PairInputs(fnow)}
  /\ frug \in RugInputs
  /\ (IF IsNull(fpair) THEN 1 ELSE Deviations(fpair[1], GoodPair(fnow)))
       + Deviations(frug, GoodRug) <= MaxDeviations
  /\ fresult = Null
  /\ fupdates = 0
  /\ previous = Null
  /\ lclock = 0 /\ requestTimes = <<>>
  /\ lcalls = [i \in Callers |-> IdleCall]
  /\ rMax = 0 /\ rAttempt = 1 /\ rState = "idle"
  /\ rOutcomes = <<>> /\ rDelays = <<>> /\ rResult = Undefined
  /\ endpoint = NoRequests
  /\ clock = 0 /\ tokens = <<>> /\ flow = [s \in Slots |-> Null]
  /\ cycles = 0 /\ alerts = {} /\ shutdown = "none"

SpecFilter == InitFilter /\ [][FilterNext]_vars

Init ==
  /\ clock = StartClock
  /\ tokens = <<>>
  /\ flow = [s \in Slots |-> IdleFlow]
  /\ cycles = 0
  /\ alerts = {}
  /\ shutdown = "none"
  /\ config = Some(filterConfig)
  /\ fupdates = 0 /\ previous = Null
  /\ fpair = Null /\ frug = Null /\ fnow = 0 /\ fresult = Null
  /\ lclock = 0 /\ requestTimes = <<>>
  /\ lcalls = [i \in Callers |-> IdleCall]
  /\ rMax = 0 /\ rAttempt = 1 /\ rState = "idle"
  /\ rOutcomes = <<>> /\ rDelays = <<>> /\ rResult = Undefined
  /\ endpoint = NoRequests

Spec == Init /\ [][Next]_vars

SpecShutdown == Init /\ [][NextShutdown]_vars

\* ---- the ingestion cycle with updateFilters ----

\* The partial configurations handed to updateFilters: lower thresholds
\* for the volume and for the traders estimated from it.
FilterUpdates == {[minVolume24h |-> Some(1), minNetTraders |-> Some(0)]}

\* monitor.updateFilters(newConfig): tokenFilter.updateConfig(newConfig)
\* and a log line.  filters.config keeps referring to the object it was
\* exported with.
updateFilters(newConfig) ==
  /\ Alive
  /\ fupdates < MaxConfigUpdates
  /\ config' = Some(MergeConfig(config[1], newConfig))
  /\ previous' = config
  /\ fupdates' = fupdates + 1
  /\ UNCHANGED <<fpair, frug, fnow, fresult, limiterVars, retryVars, cycleVars>>

NextUpdate ==
  \/ \E s \in Slots : StartCycle(s)
  \/ \E s \in Slots, failures \in 0..maxRetries, data \in PairResponses :
       Fetch(s, failures, data)
  \/ \E s \in Slots, queryOk \in BOOLEAN : Lookup(s, queryOk)
  \/ \E s \in Slots, failures \in 0..maxRetries, data \in RugPayloads :
       RugCheck(s, failures, data)
  \/ \E s \in Slots, queryOk \in BOOLEAN, webhook \in Webhooks :
       Save(s, queryOk, webhook)
  \/ \E s \in Slots : Delay(s)
  \/ \E s \in Slots : Complete(s)
  \/ \E r \in StatusRequests : UpdateStatus(r.pairAddress, r.status, r.queryOk)
  \/ Tick
  \/ \E newConfig \in FilterUpdates : updateFilters(newConfig)

SpecUpdate == Init /\ [][NextUpdate]_vars

-----------------------------------------------------------------------------
(* The multi-chain TokenMonitor of token-monitor.js: processTokens over     *)
(* the chains, with the tokens table it writes.  The invocations live in    *)
(* the slots of flow, the table in tokens, the time in clock.               *)

\* this.config of the TokenMonitor constructor, maxAge in minutes
monitorConfig ==
  [minHolders |-> 50, maxTopHolderPercentage |-> 50, minVolume24h |-> 1000,
   minNetTraders |-> 10, minLiquidity |-> 5000, maxAge |-> 24 * 60]

\* The default argument of processTokens.
chains == <<"ethereum", "bsc", "polygon">>

\* The pairs DexScreener reports: P passes the filter with a sound holder
\* list, Q has too little volume.
MonitorPair(pairAddress, volume) ==
  [pairAddress |-> pairAddress, baseToken |-> [address |-> pairAddress],
   pairCreatedAt |-> StartClock - 30,
   volume |-> [h24 |-> volume], liquidity |-> [usd |-> 6000]]

\* What axios.get resolves to in fetchLatestPairs: Null is a failed
\* request, otherwise response.data.pairs (Null when the key is missing).
MonitorPairResponses ==
  { Null,
    Some([pairs |-> Null]),
    Some([pairs |-> Some(<<MonitorPair("P", 2000)>>)]),
    Some([pairs |-> Some(<<MonitorPair("Q", 500), MonitorPair("P", 3000)>>)]) }

\* response.data of the risk endpoint; Null is a failed request.
MonitorRugResponses ==
  { Null,
    Some([score |-> 3, holders |-> Some([top |-> Some(<<[balance |-> 10]>>),
                                         total |-> 100, count |-> 60])]),
    Some([score |-> 0, holders |-> Some([top |-> Some(<<[balance |-> 80]>>),
                                         total |-> 100, count |-> 60])]),
    Some([score |-> 7, holders |-> Null]) }

fetchLatestPairs(response) ==
  IF IsNull(response) THEN <<>>
  ELSE IF IsNull(response[1].pairs) THEN <<>>
  ELSE response[1].pairs[1]

\* checkRugScore: score || 0 and holders || {}; the catch block returns the
\* same shape with score 0.
checkRugScore(response) ==
  IF IsNull(response) THEN [score |-> 0, holders |-> Null]
  ELSE [score |-> response[1].score, holders |-> response[1].holders]

\* (holders[0].balance / totalSupply) * 100, on inputs where it is whole
TokenMonitor_calculateHolderDistribution(holdersData) ==
  IF IsNull(holdersData) THEN [count |-> 0, topPercentage |-> 100]
  ELSE IF IsNull(holdersData[1].top) THEN [count |-> 0, topPercentage |-> 100]
  ELSE LET holders == holdersData[1].top[1]
           totalSupply == IF holdersData[1].total = 0 THEN 1 ELSE holdersData[1].total
       IN [count |-> IF holdersData[1].count = 0 THEN Len(holders)
                     ELSE holdersData[1].count,
           topPercentage |-> IF Len(holders) > 0
                             THEN (holders[1].balance * 100) \div totalSupply
                             ELSE 0]

TokenMonitor_filterToken(pair, rugData, now) ==
  LET age == now - pair.pairCreatedAt
      volume24h == pair.volume.h24
      liquidity == pair.liquidity.usd
      holderData == TokenMonitor_calculateHolderDistribution(rugData.holders)
      netTraders == volume24h \div 100
      rejected == [passed |-> FALSE, holderData |-> holderData, netTraders |-> netTraders]
  IN IF age > monitorConfig.maxAge THEN rejected
     ELSE IF volume24h < monitorConfig.minVolume24h THEN rejected
     ELSE IF liquidity < monitorConfig.minLiquidity THEN rejected
     ELSE IF holderData.count < monitorConfig.minHolders THEN rejected
     ELSE IF holderData.topPercentage > monitorConfig.maxTopHolderPercentage THEN rejected
     ELSE IF netTraders < monitorConfig.minNetTraders THEN rejected
     ELSE [passed |-> TRUE, holderData |-> holderData, netTraders |-> netTraders]

\* The row of the INSERT of saveToken.
MonitorRow(pair, chainId, rugData, filterResult, now) ==
  [pair_address |-> pair.pairAddress, chain_id |-> chainId,
   volume_24h |-> pair.volume.h24, liquidity_usd |-> pair.liquidity.usd,
   holders_count |-> filterResult.holderData.count,
   top_holder_percentage |-> filterResult.holderData.topPercentage,
   net_traders |-> filterResult.netTraders, rug_score |-> rugData.score,
   status |-> "active", created_at |-> now, updated_at |-> now]

\* INSERT ... ON CONFLICT (pair_address) DO UPDATE SET ...
saveToken(table, pair, chainId, rugData, filterResult, now) ==
  LET new == MonitorRow(pair, chainId, rugData, filterResult, now)
  IN IF \E i \in DOMAIN table : table[i].pair_address = pair.pairAddress
     THEN [i \in DOMAIN table |->
             IF table[i].pair_address = pair.pairAddress
             THEN [table[i] EXCEPT !.volume_24h = new.volume_24h,
                                   !.liquidity_usd = new.liquidity_usd,
                                   !.holders_count = new.holders_count,
                                   !.top_holder_percentage = new.top_holder_percentage,
                                   !.net_traders = new.net_traders,
                                   !.rug_score = new.rug_score,
                                   !.updated_at = now]
             ELSE table[i]]
     ELSE Append(table, new)

\* One invocation of processTokens.
IdleMonitor ==
  [pc |-> "idle", chain |-> 0, pairs |-> <<>>, idx |-> 0,
   processedCount |-> 0, savedCount |-> 0,
   rugData |-> Null, filterResult |-> Null]

\* The end of the pair loop of one chain: the fetch for the next chain, or
\* the end of processTokens.
NextChain(fl) ==
  IF fl.chain < Len(chains)
  THEN [fl EXCEPT !.pc = "fetch", !.chain = @ + 1, !.pairs = <<>>, !.idx = 0]
  ELSE IdleMonitor

\* The end of one iteration of the inner loop (fall through, continue, or
\* the catch block).
NextMonitorPair(fl) ==
  LET cleared == [fl EXCEPT !.rugData = Null, !.filterResult = Null]
  IN IF fl.idx < Len(fl.pairs)
     THEN [cleared EXCEPT !.pc = "lookup", !.idx = @ + 1, !.processedCount = @ + 1]
     ELSE NextChain(cleared)

\* The cron callback of startScheduler, or the first call at start-up.
processTokens(s) ==
  /\ FreeSlot(s)
  /\ cycles < MaxCycles
  /\ cycles' = cycles + 1
  /\ flow' = [flow EXCEPT ![s] = NextChain(IdleMonitor)]
  /\ UNCHANGED <<clock, tokens, alerts, shutdown>>
  /\ UNCHANGED <<filterVars, limiterVars, retryVars>>

\* fetchLatestPairs(chainId) resolves.
MonitorFetch(s, response) ==
  /\ flow[s].pc = "fetch"
  /\ flow' = [flow EXCEPT ![s] =
       NextMonitorPair([@ EXCEPT !.pairs = fetchLatestPairs(response)])]
  /\ UNCHANGED <<clock, tokens, cycles, alerts, shutdown>>
  /\ UNCHANGED <<filterVars, limiterVars, retryVars>>

\* A stored row of any age ends the iteration.
MonitorSkipsAnyStoredRow(table, pairAddress) ==
  Len(RowsOf(table, pairAddress)) > 0

\* SELECT id FROM tokens WHERE pair_address = $1 settles: a failed query
\* raises into the catch block, a stored row ends the iteration, otherwise
\* checkRugScore is called.
MonitorLookup(s, queryOk) ==
  /\ flow[s].pc = "lookup"
  /\ LET pair == flow[s].pairs[flow[s].idx]
     IN flow' = [flow EXCEPT ![s] =
          IF ~queryOk THEN NextMonitorPair(@)
          ELSE IF MonitorSkipsAnyStoredRow(tokens, pair.pairAddress)
               THEN NextMonitorPair(@)
          ELSE [@ EXCEPT !.pc = "rug"]]
  /\ UNCHANGED <<clock, tokens, cycles, alerts, shutdown>>
  /\ UNCHANGED <<filterVars, limiterVars, retryVars>>

\* checkRugScore settles and filterToken runs on its result.
MonitorRugCheck(s, response) ==
  /\ flow[s].pc = "rug"
  /\ LET pair == flow[s].pairs[flow[s].idx]
         rugData == checkRugScore(response)
         filterResult == TokenMonitor_filterToken(pair, rugData, clock)
     IN flow' = [flow EXCEPT ![s] =
          IF filterResult.passed
          THEN [@ EXCEPT !.pc = "save", !.rugData = Some(rugData),
                         !.filterResult = Some(filterResult)]
          ELSE [@ EXCEPT !.pc = "sleep"]]
  /\ UNCHANGED <<clock, tokens, cycles, alerts, shutdown>>
  /\ UNCHANGED <<filterVars, limiterVars, retryVars>>

\* The query of saveToken settles: savedCount++ and the sleep, or the catch
\* block.
MonitorSave(s, queryOk) ==
  /\ flow[s].pc = "save"
  /\ LET pair == flow[s].pairs[flow[s].idx]
     IN IF queryOk
        THEN /\ tokens' = saveToken(tokens, pair, chains[flow[s].chain],
                                    flow[s].rugData[1], flow[s].filterResult[1], clock)
             /\ flow' = [flow EXCEPT ![s] =
                  [@ EXCEPT !.pc = "sleep", !.savedCount = @ + 1,
                            !.rugData = Null, !.filterResult = Null]]
        ELSE /\ flow' = [flow EXCEPT ![s] = NextMonitorPair(@)]
             /\ UNCHANGED tokens
  /\ UNCHANGED <<clock, cycles, alerts, shutdown>>
  /\ UNCHANGED <<filterVars, limiterVars, retryVars>>

\* this.sleep(200) ends.
MonitorSleep(s) ==
  /\ flow[s].pc = "sleep"
  /\ flow' = [flow EXCEPT ![s] = NextMonitorPair(@)]
  /\ UNCHANGED <<clock, tokens, cycles, alerts, shutdown>>
  /\ UNCHANGED <<filterVars, limiterVars, retryVars>>

MonitorNext ==
  \/ \E s \in Slots : processTokens(s)
  \/ \E s \in Slots, response \in MonitorPairResponses : MonitorFetch(s, response)
  \/ \E s \in Slots, queryOk \in BOOLEAN : MonitorLookup(s, queryOk)
  \/ \E s \in Slots, response \in MonitorRugResponses : MonitorRugCheck(s, response)
  \/ \E s \in Slots, queryOk \in BOOLEAN : MonitorSave(s, queryOk)
  \/ \E s \in Slots : MonitorSleep(s)
  \/ Tick

InitMonitor ==
  /\ clock = StartClock
  /\ tokens = <<>>
  /\ flow = [s \in Slots |-> IdleMonitor]
  /\ cycles = 0
  /\ alerts = {}
  /\ shutdown = "none"
  /\ config = Some(filterConfig)
  /\ fupdates = 0 /\ previous = Null
  /\ fpair = Null /\ frug = Null /\ fnow = 0 /\ fresult = Null
  /\ lclock = 0 /\ requestTimes = <<>>
  /\ lcalls = [i \in Callers |-> IdleCall]
  /\ rMax = 0 /\ rAttempt = 1 /\ rState = "idle"
  /\ rOutcomes = <<>> /\ rDelays = <<>> /\ rResult = Undefined
  /\ endpoint = NoRequests

SpecMonitor == InitMonitor /\ [][MonitorNext]_vars

-----------------------------------------------------------------------------
(* Claims about the RateLimiter (SpecLimiter)                               *)

ReturnsIn(t) ==
  {i \in Callers : lcalls[i].pc = "done"
                   /\ lcalls[i].ret >= t /\ lcalls[i].ret < t + LimiterInterval}

\* C1: for one RateLimiter(N, T) and any sequence of acquire() calls, also
\* calls made while earlier ones are suspended, no rolling window of T
\* milliseconds holds more than N of the times at which acquire() returned.
C1_AtMostNReturnsPerWindow ==
  \A t \in 0..MaxTime : Cardinality(ReturnsIn(t)) <= LimiterRequests

\* C20: from an empty limiter, once the first N calls have returned, the
\* first of them at t1, a call N+1 made at t with t - t1 < T is suspended
\* and does not return before t1 + T: the sleep it asks for is at least
\* T - (t - t1); and no call asks for a sleep longer than T.
C20_NextCallWaitsOutWindow ==
  /\ LET c == lcalls[LimiterRequests + 1]
         t1 == lcalls[1].ret
     IN (c.pc # "idle" /\ c.now - t1 < LimiterInterval) =>
          /\ \A j \in 1..LimiterRequests :
               lcalls[j].pc = "done" /\ lcalls[j].ret <= c.now
          /\ c.wake - c.now >= LimiterInterval - (c.now - t1)
          /\ c.wake >= t1 + LimiterInterval
          /\ c.pc = "done" => c.ret >= t1 + LimiterInterval
  /\ \A i \in Callers :
       lcalls[i].pc # "idle" => lcalls[i].wake - lcalls[i].now <= LimiterInterval

\* C20 witness: call N+1 was made after t1 and inside the window of the
\* first call, was suspended, and has returned at t1 + T exactly.
C20_Witness ==
  LET c == lcalls[LimiterRequests + 1]
      t1 == lcalls[1].ret
  IN /\ c.pc = "done"
     /\ c.now > t1
     /\ c.now - t1 < LimiterInterval
     /\ c.ret = t1 + LimiterInterval
     /\ c.ret > c.now

-----------------------------------------------------------------------------
(* Claims about the requests sent to an endpoint (SpecRequest)              *)

\* The request attempts sent to the endpoint so far, and the acquire() calls
\* completed on its limiter.
AttemptsSent == endpoint.attempts + Len(rOutcomes)
AcquiresCompleted == Cardinality({i \in Callers : lcalls[i].pc = "done"})

\* C21: every request attempt sent to an endpoint, each retry attempt
\* included, is preceded by its own acquire() on the endpoint's limiter: the
\* attempts sent never outnumber the completed acquire() calls.
C21_AttemptsWithinAcquires == AttemptsSent <= AcquiresCompleted

-----------------------------------------------------------------------------
(* Claims about retryRequest (SpecRetry)                                    *)

Failures(outcomes) == {k \in DOMAIN outcomes : outcomes[k] # "ok"}

\* C8: retryRequest(op, maxAttempts) with maxAttempts >= 1 invokes op at
\* least once and at most maxAttempts times, stops at the first success and
\* returns its result, raises the failure of the last invocation when all
\* maxAttempts invocations fail, and waits baseDelay * 2^(k-1) after the
\* k-th failed attempt only when another attempt follows.
C8_RetryContract ==
  rMax >= 1 =>
    LET n == Len(rOutcomes) IN
    /\ n <= rMax
    /\ rState \in {"returned", "threw"} => n >= 1
    /\ \A k \in 1..(n - 1) : rOutcomes[k] # "ok"
    /\ rState = "returned" <=> (n >= 1 /\ rOutcomes[n] = "ok")
    /\ rState = "returned" => rResult = "value"
    /\ rState = "threw" =>
         /\ n = rMax
         /\ Failures(rOutcomes) = 1..rMax
         /\ rResult = rOutcomes[rMax]
    /\ rState = "running" => n = rAttempt - 1
    /\ Len(rDelays) = Cardinality(Failures(rOutcomes) \ {rMax})
    /\ \A k \in DOMAIN rDelays : rDelays[k] = 1000 * 2^(k - 1)

\* C8 witness: three attempts were allowed, all three failed, two waits were
\* made and the third failure was raised.
C8_Witness ==
  /\ rMax = 3
  /\ rState = "threw"
  /\ rOutcomes = <<"e1", "e2", "e1">>
  /\ rDelays = <<1000, 2000>>
  /\ rResult = "e1"

-----------------------------------------------------------------------------
(* Claims about filterToken (SpecFilter)                                    *)

\* The stages of section 4.4, in its order, and the stage each identifier
\* returned by filterToken belongs to.
StageOrder ==
  <<"validation", "chain", "age", "dex", "volume", "liquidity",
    "price_change", "holders", "rug_score", "risk_types", "net_traders",
    "market_cap", "authorities">>

StageOfId(id) ==
  CASE id = "validation" -> 1
    [] id \in {"chain", "chain_mismatch"} -> 2
    [] id \in {"age_min", "age_max"} -> 3
    [] id \in {"dex_blocked", "dex_allowed"} -> 4
    [] id \in {"volume_min", "volume_max"} -> 5
    [] id \in {"liquidity_min", "liquidity_max", "sol_liquidity"} -> 6
    [] id \in {"price_change_min", "price_change_max"} -> 7
    [] id \in {"holders_min", "holder_concentration"} -> 8
    [] id = "rug_score" -> 9
    [] id = "risk_types" -> 10
    [] id = "net_traders" -> 11
    [] id \in {"market_cap_min", "market_cap_max"} -> 12
    [] id \in {"freeze_authority", "mint_authority"} -> 13
    [] OTHER -> 0

\* A bound of section 4.4: null means no bound; a set bound is inclusive.
Below(x, bound) == ~IsNull(bound) /\ x < bound[1]
Above(x, bound) == ~IsNull(bound) /\ x > bound[1]

\* Whether the input violates the condition of stage k of section 4.4.
Violates(k, cfg, pair, rug, now) ==
  IF IsNull(pair) \/ pair[1].pairAddress = "" THEN k = 1
  ELSE
    LET p == pair[1]
        hd == calculateHolderDistribution(rug.holders)
    IN CASE k = 1 -> FALSE
         [] k = 2 -> p.chainId # "solana"
         [] k = 3 -> \/ Below(tokenAge(p, now), cfg.minTokenAgeMinutes)
                     \/ /\ ~IsNull(cfg.maxTokenAgeHours)
                        /\ tokenAge(p, now) > cfg.maxTokenAgeHours[1] * 60
         [] k = 4 -> \/ ~IsNull(cfg.blockedDEXs) /\ Includes(cfg.blockedDEXs, p.dexId)
                     \/ ~IsNull(cfg.allowedDEXs) /\ ~Includes(cfg.allowedDEXs, p.dexId)
         [] k = 5 -> \/ Below(p.volume24h, cfg.minVolume24h)
                     \/ Above(p.volume24h, cfg.maxVolume24h)
         [] k = 6 -> \/ Below(p.liquidityUsd, cfg.minLiquidity)
                     \/ Above(p.liquidityUsd, cfg.maxLiquidity)
                     \/ Below(getSOLLiquidity(p), cfg.minSOLLiquidity)
         [] k = 7 -> \/ Below(p.priceChange24h, cfg.minPriceChange24h)
                     \/ Above(p.priceChange24h, cfg.maxPriceChange24h)
         [] k = 8 -> \/ Below(hd.count, cfg.minHolders)
                     \/ Above(hd.topPercentage, cfg.maxTopHolderPercentage)
         [] k = 9 -> Above(rug.score, cfg.maxRugScore)
         [] k = 10 -> /\ ~IsNull(cfg.blockedRiskTypes)
                      /\ \E i \in DOMAIN rug.risks :
                           Includes(cfg.blockedRiskTypes, rug.risks[i])
         [] k = 11 -> Below(p.volume24h \div 50, cfg.minNetTraders)
         [] k = 12 -> \/ Below(p.liquidityUsd * 20, cfg.minMarketCapUSD)
                      \/ Above(p.liquidityUsd * 20, cfg.maxMarketCapUSD)
         [] OTHER -> ~IsNull(rug.freezeAuthority) \/ ~IsNull(rug.mintAuthority)

ViolatedStages(cfg, pair, rug, now) ==
  {k \in DOMAIN StageOrder : Violates(k, cfg, pair, rug, now)}

\* C2: whenever filterToken returns passed=false, its filters list holds
\* exactly one stage identifier, that of the earliest stage in the order of
\* section 4.4 whose condition the input violates; an input violating both
\* minVolume24h and minHolders is reported as volume_min, never holders_min.
C2_EarliestViolatedStageReported ==
  (~IsNull(fresult) /\ ~fresult[1].raised /\ ~fresult[1].passed) =>
    LET r == fresult[1]
        violated == ViolatedStages(config[1], fpair, frug, fnow)
    IN /\ Len(r.filters) = 1
       /\ violated # {}
       /\ StageOfId(r.filters[1]) = Min(violated)

\* The configuration keys that govern the stage of an identifier.
GoverningKeys(id) ==
  CASE id = "age_max" -> {"maxTokenAgeHours"}
    [] id = "age_min" -> {"minTokenAgeMinutes"}
    [] id = "dex_blocked" -> {"blockedDEXs"}
    [] id = "dex_allowed" -> {"allowedDEXs"}
    [] id = "volume_min" -> {"minVolume24h"}
    [] id = "volume_max" -> {"maxVolume24h"}
    [] id = "liquidity_min" -> {"minLiquidity"}
    [] id = "liquidity_max" -> {"maxLiquidity"}
    [] id = "sol_liquidity" -> {"minSOLLiquidity"}
    [] id = "price_change_max" -> {"maxPriceChange24h"}
    [] id = "price_change_min" -> {"minPriceChange24h"}
    [] id = "holders_min" -> {"minHolders"}
    [] id = "holder_concentration" -> {"maxTopHolderPercentage"}
    [] id = "rug_score" -> {"maxRugScore"}
    [] id = "risk_types" -> {"blockedRiskTypes"}
    [] id = "net_traders" -> {"minNetTraders"}
    [] id = "market_cap_min" -> {"minMarketCapUSD"}
    [] id = "market_cap_max" -> {"maxMarketCapUSD"}
    [] OTHER -> {}

\* C7: when the configuration value governing a stage is unset (null), no
\* input fails at that stage and filterToken does not raise.
C7_UnsetStageNeverFails ==
  ~IsNull(fresult) =>
    /\ ~fresult[1].raised
    /\ \A i \in DOMAIN fresult[1].filters :
         \A key \in GoverningKeys(fresult[1].filters[i]) :
           ~IsNull(config[1][key])

\* C6: whatever the configuration and the risk score, filterToken never
\* returns passed=true for a risk record with a non-null freeze or mint
\* authority; and an input with risk score 0 and only the mint authority
\* set, which passes when the mint authority is cleared, is rejected with
\* the stage mint_authority.
C6_AuthorityVeto ==
  ~IsNull(fresult) =>
    /\ (~IsNull(frug.freezeAuthority) \/ ~IsNull(frug.mintAuthority))
         => ~fresult[1].passed
    /\ ( /\ frug.score = 0
         /\ ~IsNull(frug.mintAuthority)
         /\ IsNull(frug.freezeAuthority)
         /\ filterToken(config[1], fpair,
                        [frug EXCEPT !.mintAuthority = Null], fnow).passed )
         => /\ ~fresult[1].raised
            /\ fresult[1].filters = <<"mint_authority">>

\* C6 witness: a pair passing every other stage, with risk score 0 and a
\* mint authority, has been rejected at mint_authority.
C6_Witness ==
  /\ ~IsNull(fresult)
  /\ frug.score = 0
  /\ ~IsNull(frug.mintAuthority)
  /\ IsNull(frug.freezeAuthority)
  /\ fresult[1].filters = <<"mint_authority">>
  /\ fupdates = 1

\* C15: updateConfig(partial) is a shallow merge: in the step that applies
\* it every key of partial has partial's value and every other key keeps its
\* value; merging the same partial again changes nothing; the object that
\* held the configuration before is left as it was; and a filterToken call
\* runs on the configuration as merged so far.
C15_UpdateConfigShallowMerge ==
  [][/\ fupdates' # fupdates =>
          \E i \in DOMAIN ConfigPartials :
            LET partial == ConfigPartials[i] IN
            /\ DOMAIN config'[1] = (DOMAIN config[1]) \cup (DOMAIN partial)
            /\ \A k \in DOMAIN partial : config'[1][k] = partial[k]
            /\ \A k \in (DOMAIN config[1]) \ (DOMAIN partial) :
                 config'[1][k] = config[1][k]
            /\ MergeConfig(config'[1], partial) = config'[1]
            /\ previous' = config
     /\ fresult' # fresult =>
          /\ config' = config
          /\ fresult' = Some(filterToken(config[1], fpair, frug, fnow))]_vars

\* C15 witness: maxPriceChange24h was merged in as 10 while the object
\* configured before still has its own value and every other key kept its
\* value, and a pair with a 24 h price change of 20 was then rejected at
\* price_change_max.
C15_Witness ==
  /\ fupdates = 1
  /\ config[1].maxPriceChange24h = Some(10)
  /\ previous = Some(filterConfig)
  /\ config[1].minVolume24h = filterConfig.minVolume24h
  /\ ~IsNull(fresult)
  /\ ~fresult[1].passed
  /\ fresult[1].filters = <<"price_change_max">>

\* The bounds the claim calls invalid: a negative threshold, or a minimum
\* above its maximum.
NonNegativeKeys ==
  {"minHolders", "maxTopHolderPercentage", "minVolume24h", "maxVolume24h",
   "minLiquidity", "maxLiquidity", "minNetTraders", "maxTokenAgeHours",
   "minTokenAgeMinutes", "maxRugScore", "minMarketCapUSD", "maxMarketCapUSD",
   "minSOLLiquidity"}

MinMaxKeys ==
  {<<"minVolume24h", "maxVolume24h">>, <<"minLiquidity", "maxLiquidity">>,
   <<"minPriceChange24h", "maxPriceChange24h">>,
   <<"minMarketCapUSD", "maxMarketCapUSD">>}

InvalidBounds(cfg) ==
  \/ \E k \in NonNegativeKeys : ~IsNull(cfg[k]) /\ cfg[k][1] < 0
  \/ \E m \in MinMaxKeys :
       /\ ~IsNull(cfg[m[1]]) /\ ~IsNull(cfg[m[2]])
       /\ cfg[m[1]][1] > cfg[m[2]][1]

\* C16: an update that would leave the filter with invalid bounds is
\* rejected at the call: the step leaves the configuration exactly as it
\* was, so no step ever installs a configuration with a negative threshold
\* or a minimum above its maximum.
C16_InvalidUpdateRejected ==
  [][InvalidBounds(config'[1]) => config' = config]_vars

\* C19: when the pair and its risk record violate no stage, filterToken
\* returns passed=true with an empty filters list, the holder summary,
\* netTraders = floor(volume24h / 50), the risk score and tags, the SOL
\* liquidity and estimatedMarketCap = liquidityUSD * 20; and it returns
\* passed=true only when no stage's condition is violated.
C19_PassIffNoStageViolated ==
  ~IsNull(fresult) =>
    LET r == fresult[1]
        violated == ViolatedStages(config[1], fpair, frug, fnow)
    IN /\ violated = {} =>
            /\ ~r.raised
            /\ r.passed
            /\ r.filters = <<>>
            /\ r.holderData = calculateHolderDistribution(frug.holders)
            /\ r.netTraders = fpair[1].volume24h \div 50
            /\ r.rugScore = frug.score
            /\ r.risks = frug.risks
            /\ r.solLiquidity = getSOLLiquidity(fpair[1])
            /\ r.estimatedMarketCap = fpair[1].liquidityUsd * 20
       /\ (~r.raised /\ r.passed) => violated = {}

-----------------------------------------------------------------------------
(* Claims about the ingestion cycle and the tokens table (Spec)             *)

\* C3 (first half): a pair whose stored record is within the freshness
\* window when the cycle reaches it gets no risk-assessment request and no
\* upsert in that iteration.
C3_FreshRecordNotReassessed ==
  \A s \in Slots : flow[s].pc \in {"rug", "save"} => ~flow[s].fresh

\* C4: two invocations never both see the record of a pair address absent or
\* stale and both upsert it within one freshness window.
C4_NoDoubleWriteInWindow ==
  \A s \in Slots, t \in Slots :
    s # t =>
      \A w \in flow[s].wrote, v \in flow[t].wrote :
        w.row.pair_address = v.row.pair_address =>
          \/ w.at - v.at >= FreshnessWindow
          \/ v.at - w.at >= FreshnessWindow

\* C5: checkSolanaRugScore never raises: the step that settles it always
\* goes on to filterToken, and after a risk lookup that failed on every
\* attempt or gave an unreadable payload, the record is the degraded default
\* (score 5, 'data_unavailable' among the risks, empty holders, null freeze,
\* mint and update authorities) and filterToken has run on that record.
C5_RugScoreNeverRaises ==
  [][\A s \in Slots :
       (flow[s].pc = "rug" /\ flow'[s] # flow[s]) =>
         /\ flow'[s].pc \in {"save", "sleep"}
         /\ ~IsNull(flow'[s].rugData)
         /\ flow'[s].rugFailed =>
              /\ flow'[s].rugData[1].score = 5
              /\ "data_unavailable" \in Range(flow'[s].rugData[1].risks)
              /\ IsNull(flow'[s].rugData[1].holders)
              /\ IsNull(flow'[s].rugData[1].freezeAuthority)
              /\ IsNull(flow'[s].rugData[1].mintAuthority)
              /\ IsNull(flow'[s].rugData[1].updateAuthority)
              /\ flow'[s].filterResult =
                   Some(filterToken(config[1], Some(flow[s].pairs[flow[s].idx]),
                                    flow'[s].rugData[1], clock))]_vars

\* A risk lookup failed, the degraded default went through filterToken, and
\* the cycle is at its inter-request sleep.
C5_Witness ==
  \E s \in Slots :
    /\ flow[s].pc = "sleep"
    /\ flow[s].rugFailed
    /\ flow[s].rugData[1].score = 5
    /\ flow[s].filterResult[1].filters = <<"holders_min">>

\* C9: no step of an ingestion cycle changes the status of an existing
\* record, re-upserts after the freshness window included; the status
\* changes only in a step of the status route; a record created by
\* ingestion starts as active.
C9_IngestionKeepsStatus ==
  [][/\ \A i \in DOMAIN tokens :
          /\ i \in DOMAIN tokens'
          /\ tokens'[i].pair_address = tokens[i].pair_address
          /\ tokens'[i].status # tokens[i].status => flow' = flow
     /\ \A i \in (DOMAIN tokens') \ (DOMAIN tokens) :
          tokens'[i].status = "active"]_vars

\* A flagged record was found stale and re-upserted, and is still flagged.
C9_Witness ==
  \E s \in Slots : \E w \in flow[s].wrote :
    /\ w.over = "stale"
    /\ w.row.status = "flagged"
    /\ w.row.updated_at = w.at

\* C10: the table holds at most one record per pair address; created_at of
\* a record never changes; updated_at of a record never decreases.
C10_OneRecordPerPair ==
  [][/\ \A i \in DOMAIN tokens', j \in DOMAIN tokens' :
          tokens'[i].pair_address = tokens'[j].pair_address => i = j
     /\ \A i \in DOMAIN tokens : \E j \in DOMAIN tokens' :
          /\ tokens'[j].pair_address = tokens[i].pair_address
          /\ tokens'[j].created_at = tokens[i].created_at
          /\ tokens'[j].updated_at >= tokens[i].updated_at]_vars

\* A record was re-upserted after its freshness window: updated_at moved on,
\* created_at did not, and the table still holds one record for the pair.
C10_Witness ==
  \E s \in Slots : \E w \in flow[s].wrote :
    /\ w.over = "stale"
    /\ w.row.created_at < w.row.updated_at
    /\ w.row.volume_24h = 600
    /\ Len(RowsOf(tokens, w.row.pair_address)) = 1


-----------------------------------------------------------------------------
(* Claims about one invocation of processSolanaTokens (Spec)                *)

FlowPcs == {"idle", "fetch", "lookup", "rug", "save", "sleep", "complete"}

\* C11: a raise while one pair is processed is caught for that pair only:
\* the step that logs the ERROR line writes nothing to the table and moves
\* the loop to the next pair of the candidate list (or, after the last one,
\* to the code after the loop); an invocation reaches the code after the
\* loop only when every candidate has been visited; and the invocation
\* itself never ends by raising.
C11_RaiseIsCaughtPerPair ==
  [][\A s \in Slots :
       /\ flow'[s].pc \in FlowPcs
       /\ (flow'[s].pc = "complete" /\ flow[s].pc \notin {"complete", "fetch"}) =>
            /\ flow[s].idx = Len(flow[s].pairs)
            /\ flow'[s].processedCount = Len(flow[s].pairs)
       /\ (flow[s].pc # "complete" /\ flow'[s].errorCount # flow[s].errorCount) =>
            /\ flow'[s].errorCount = flow[s].errorCount + 1
            /\ tokens' = tokens
            /\ IF flow[s].idx < Len(flow[s].pairs)
               THEN /\ flow'[s].pc = "lookup"
                    /\ flow'[s].pairs = flow[s].pairs
                    /\ flow'[s].idx = flow[s].idx + 1
               ELSE flow'[s].pc = "complete"]_vars

\* C11 witness: the upsert of the first pair of a two-pair candidate list
\* raised (the pair is counted neither as saved nor as filtered), and the
\* second pair has since been looked up, assessed and rejected by the filter.
C11_Witness ==
  \E s \in Slots :
    /\ Len(flow[s].pairs) = 2
    /\ flow[s].idx = 2
    /\ flow[s].errorCount = 1
    /\ flow[s].savedCount = 0
    /\ flow[s].filteredCount = 1
    /\ flow[s].pc = "sleep"


\* C12: when the pair fetch fails on every retry attempt, the invocation
\* goes straight to the code after the loop with processed = saved =
\* filtered = 0: it visits no pair (so it issues no risk-assessment request
\* and no persistence write), logs no per-pair error and does not raise; it
\* then ends, and as long as a slot is free the next cycle can start.
C12_FailedFetchEndsCycleEmpty ==
  \A s \in Slots :
    flow[s].fetchFailed =>
      /\ flow[s].pc = "complete"
      /\ flow[s].pairs = <<>>
      /\ flow[s].processedCount = 0
      /\ flow[s].savedCount = 0
      /\ flow[s].filteredCount = 0
      /\ flow[s].errorCount = 0
      /\ IsNull(flow[s].rugData)
      /\ flow[s].wrote = {}
      /\ ENABLED Complete(s)
      /\ (cycles < MaxCycles /\ \E t \in Slots : flow[t].pc = "idle") =>
           ENABLED (\E t \in Slots : StartCycle(t))

\* C12 witness: an invocation whose fetch failed on every attempt is at the
\* code after the loop, and another cycle is still to come.
C12_Witness ==
  \E s \in Slots :
    /\ flow[s].fetchFailed
    /\ flow[s].pc = "complete"
    /\ cycles < MaxCycles


\* C13: the run-one-cycle entry point returns the counts {processed, saved,
\* filtered} of the invocation, where saved + filtered <= processed, and
\* a pair whose iteration raised is counted in neither saved nor filtered.
C13_CycleReturnsCounts ==
  \A s \in Slots :
    flow[s].pc = "complete" =>
      /\ processSolanaTokens(flow[s]) =
           Some([processed |-> flow[s].processedCount,
                 saved |-> flow[s].savedCount,
                 filtered |-> flow[s].filteredCount])
      /\ flow[s].savedCount + flow[s].filteredCount <= flow[s].processedCount
      /\ flow[s].errorCount > 0 =>
           flow[s].savedCount + flow[s].filteredCount < flow[s].processedCount


\* C14: an alert is logged for a pair only in the step in which that pair's
\* upsert has completed in the same invocation; a step that completes an
\* upsert, whatever the notification call meets, leaves the table as the
\* upsert wrote it, counts the pair as saved, logs no error and goes to the
\* inter-request sleep; and after a failed notification the invocation goes
\* on with the next pair, with the record and the saved count untouched.
C14_AlertAfterUpsertNeverPropagates ==
  [][/\ \A a \in alerts' \ alerts :
          \E s \in Slots :
            /\ flow[s].pc = "save"
            /\ flow[s].pairs[flow[s].idx].pairAddress = a
            /\ flow'[s].savedCount = flow[s].savedCount + 1
            /\ \E i \in DOMAIN tokens' :
                 tokens'[i].pair_address = a /\ tokens'[i].updated_at = clock
     /\ \A s \in Slots :
          (flow[s].pc = "save" /\ flow'[s].savedCount = flow[s].savedCount + 1) =>
            /\ tokens' = saveSolanaToken(tokens, flow[s].pairs[flow[s].idx],
                                         flow[s].rugData[1],
                                         flow[s].filterResult[1], clock)
            /\ flow'[s].pc = "sleep"
            /\ flow'[s].errorCount = flow[s].errorCount
            /\ flow'[s].notifyFailed =>
                 flow[s].pairs[flow[s].idx].pairAddress \in alerts'
     /\ \A s \in Slots :
          (flow[s].notifyFailed /\ flow'[s] # flow[s]) =>
            /\ tokens' = tokens
            /\ flow'[s].savedCount = flow[s].savedCount
            /\ flow'[s].errorCount = flow[s].errorCount
            /\ flow'[s].pc = IF flow[s].idx < Len(flow[s].pairs)
                             THEN "lookup" ELSE "complete"]_vars

\* C14 witness: the webhook call of an alert has failed; the pair is counted
\* as saved, its record is in the table as the upsert of this moment wrote
\* it, the alert is logged and the invocation is at its inter-request sleep.
C14_Witness ==
  \E s \in Slots :
    /\ flow[s].notifyFailed
    /\ flow[s].pc = "sleep"
    /\ flow[s].savedCount = 1
    /\ flow[s].errorCount = 0
    /\ flow[s].pairs[flow[s].idx].pairAddress \in alerts
    /\ \E w \in flow[s].wrote :
         /\ w.at = clock
         /\ RowsOf(tokens, w.row.pair_address) = <<w.row>>


\* The status values and pair addresses a request of the status route may
\* carry, beside those of StatusRequests.
RequestStatuses == {"active", "flagged", "rug", "delisted", "bogus", "", "ACTIVE"}
RequestAddresses == {"A", "B", "M", "N", "Z"}

\* C17: on every table the cycles and status updates can produce, a status
\* update whose value is outside {active, flagged, rug, delisted} is
\* answered 400 and leaves the table as it is, and one for a pair address
\* without a record leaves the table as it is, adding no record; and every
\* stored record's status is one of the four values.
C17_StatusStaysValid ==
  /\ \A i \in DOMAIN tokens :
       tokens[i].status \in {"active", "flagged", "rug", "delisted"}
  /\ \A a \in RequestAddresses, st \in RequestStatuses, queryOk \in BOOLEAN :
       LET r == statusRoute(tokens, a, st, queryOk, clock) IN
       /\ st \notin {"active", "flagged", "rug", "delisted"} =>
            r.code = 400 /\ r.rows = tokens
       /\ Len(RowsOf(tokens, a)) = 0 =>
            r.code \in {400, 404, 500} /\ r.rows = tokens
       /\ Len(r.rows) = Len(tokens)

\* C17 witness: the record of pair A has been flagged through the status
\* route; on this table a request with status 'bogus' for A is answered 400
\* and a request for the absent pair Z is answered 404.
C17_Witness ==
  /\ Len(tokens) = 1
  /\ tokens[1].pair_address = "A"
  /\ tokens[1].status = "flagged"
  /\ statusRoute(tokens, "A", "bogus", TRUE, clock).code = 400
  /\ statusRoute(tokens, "Z", "rug", TRUE, clock).code = 404


\* C22: at most one invocation of the ingestion cycle is in progress at any
\* time: none is started while a scheduled or manually triggered one has
\* not finished.
C22_OneCycleAtATime ==
  Cardinality({s \in Slots : flow[s].pc # "idle"}) <= 1

\* C23: within one invocation, a risk request is never made while the
\* sleep of rateLimitDelay has not run since the risk request of an earlier
\* pair, whether that pair was saved, filtered, or ended in the catch block.
C23_RiskRequestsAreSpaced ==
  \A s \in Slots : flow[s].pc = "rug" => ~flow[s].unpaced

\* C24: a pair whose persistence lookup failed is skipped for the cycle: no
\* risk request is made for it and no upsert is issued for it.
C24_FailedLookupSkipsPair ==
  \A s \in Slots :
    flow[s].observed = "error" => flow[s].pc \notin {"rug", "save"}

\* C25: in processTokens of the multi-chain TokenMonitor, when the lookup
\* query succeeds on a pair whose stored record was last updated an hour
\* ago or more, the pair is not skipped: its risk request is made next.
StoredStale(s) ==
  LET pairAddress == flow[s].pairs[flow[s].idx].pairAddress
  IN /\ Len(RowsOf(tokens, pairAddress)) > 0
     /\ \A i \in DOMAIN tokens :
          tokens[i].pair_address = pairAddress
            => clock - tokens[i].updated_at >= FreshnessWindow

C25_StaleStoredPairReassessed ==
  [][\A s \in Slots :
       (MonitorLookup(s, TRUE) /\ StoredStale(s)) => flow'[s].pc = "rug"]_vars

\* C26: the pairs an invocation works through are at most maxTokensPerScan,
\* all on supported DEXs, and in the order of the prioritisation: pairs on
\* priority DEXs first, in the order of the priority list, then the others
\* by descending 24h volume; the loop takes them in that order, the pair in
\* hand being the idx-th of them and the idx-th counted.
InLoop(s) == flow[s].pc \in {"lookup", "rug", "save", "sleep"}

HasPriority(pair) == indexOf(priorityDEXs, pair.dexId) # -1

C26_ProcessesPrioritisedPairsInOrder ==
  \A s \in Slots :
    InLoop(s) =>
      LET pairs == flow[s].pairs
      IN /\ Len(pairs) <= MaxTokensPerScan
         /\ \A i \in DOMAIN pairs : indexOf(supportedDEXs, pairs[i].dexId) # -1
         /\ \A i, j \in DOMAIN pairs :
              i < j =>
                /\ HasPriority(pairs[j]) => HasPriority(pairs[i])
                /\ HasPriority(pairs[j]) =>
                     indexOf(priorityDEXs, pairs[i].dexId)
                       <= indexOf(priorityDEXs, pairs[j].dexId)
                /\ ~HasPriority(pairs[i]) =>
                     pairs[i].volume24h >= pairs[j].volume24h
         /\ flow[s].idx \in DOMAIN pairs
         /\ flow[s].processedCount = flow[s].idx

\* The second of two pairs without priority is in hand; the response listed
\* it first, with the smaller volume.
C26_Witness ==
  \E s \in Slots :
    /\ flow[s].pc = "rug"
    /\ flow[s].idx = 2
    /\ flow[s].pairs[1].pairAddress = "K"
    /\ flow[s].pairs[2].pairAddress = "L"

\* C27: alert eligibility is monotone in the risk score: when shouldAlert
\* accepts the pair that is being persisted with its risk score, it accepts
\* the same pair with every lower score, 0 included.
C27_AlertMonotoneInScore ==
  \A s \in Slots :
    flow[s].pc = "save" =>
      LET pair == flow[s].pairs[flow[s].idx]
          rugData == flow[s].rugData[1]
          filterResult == flow[s].filterResult[1]
      IN shouldAlert(pair, rugData, filterResult) =>
           \A lower \in 0..(rugData.score - 1) :
             shouldAlert(pair, [rugData EXCEPT !.score = lower], filterResult)

\* C28: in an invocation started after the last updateFilters, the alert
\* predicate applied to the pair being persisted is the one read against the
\* merged configuration of the filter, and the filter outcome in hand is
\* the one filterToken gives under the merged configuration.
AlertUnder(cfg, pair, rug, filterResult) ==
  /\ pair.volume24h > ToNumber(cfg.minVolume24h)
  /\ pair.liquidityUsd > ToNumber(cfg.minLiquidity)
  /\ (IF rug.score # 0 THEN rug.score ELSE 10) <= ToNumber(cfg.maxRugScore)
  /\ filterResult.holderData.count >= ToNumber(cfg.minHolders)
  /\ filterResult.holderData.topPercentage
       <= ToNumber(cfg.maxTopHolderPercentage)

C28_UpdatedConfigUsedByFilterAndAlert ==
  \A s \in Slots :
    (flow[s].pc = "save" /\ fupdates > 0 /\ flow[s].updatesBefore = fupdates) =>
      LET pair == flow[s].pairs[flow[s].idx]
          rugData == flow[s].rugData[1]
          filterResult == flow[s].filterResult[1]
      IN /\ filterResult = filterToken(config[1], Some(pair), rugData, clock)
         /\ shouldAlert(pair, rugData, filterResult)
              = AlertUnder(config[1], pair, rugData, filterResult)

\* C29: under the default configuration a pair whose risk lookup failed is
\* never persisted: filterToken rejects it at holders_min or at an earlier
\* stage, the invocation goes to its sleep without issuing the upsert, and
\* no record is written for the pair.
C29_FailedRiskLookupNotPersisted ==
  \A s \in Slots :
    (flow[s].rugFailed /\ config = Some(filterConfig)) =>
      /\ flow[s].pc = "sleep"
      /\ ~flow[s].filterResult[1].passed
      /\ LET id == flow[s].filterResult[1].filters[1]
         IN id = "holders_min" \/ StageOfId(id) \in 1..StageOfId("price_change_min")
      /\ flow[s].wrote = {}

\* The risk lookup of pair "A" failed; with a readable report the pair
\* passes the filter, with the degraded default it is rejected at
\* holders_min, and no record of it is stored.
C29_Witness ==
  \E s \in Slots :
    /\ flow[s].pc = "sleep"
    /\ flow[s].rugFailed
    /\ flow[s].pairs[flow[s].idx].pairAddress = "A"
    /\ filterToken(config[1], Some(flow[s].pairs[flow[s].idx]), GoodRug, clock).passed
    /\ flow[s].filterResult[1].filters = <<"holders_min">>
    /\ RowsOf(tokens, "A") = <<>>

\* C30: the sol_liquidity of the row an upsert has just written equals the
\* SOL liquidity that filterToken computed for the pair and compared with
\* minSOLLiquidity, and is therefore not below minSOLLiquidity.
C30_StoredSolLiquidityIsFiltersFigure ==
  \A s \in Slots :
    \A w \in flow[s].wrote :
      LET pair == flow[s].pairs[flow[s].idx]
      IN /\ w.row.sol_liquidity = getSOLLiquidity(pair)
         /\ w.row.sol_liquidity >= ToNumber(config[1].minSOLLiquidity)

-----------------------------------------------------------------------------
(* Claims about shutdown (SpecShutdown)                                     *)

\* C18: once a shutdown signal has arrived no new cycle is started; an
\* invocation in flight at that moment runs to its end, so that the process
\* exits only when no invocation is in flight; and no upsert is attempted
\* once the pool has been released.
C18_ShutdownLetsCycleFinish ==
  [][/\ shutdown # "none" => cycles' = cycles
     /\ shutdown' = "exited" => \A s \in Slots : flow'[s].pc = "idle"
     /\ shutdown # "none" =>
          \A s \in Slots : flow[s].pc = "save" => flow'[s] = flow[s]]_vars

====
